---- MODULE Spec2Model ----
(***************************************************************************)
(* Unit09 on-chain registry: the Config account and its methods, and the   *)
(* write instructions create_fork, record_observation and record_metrics.  *)
(*                                                                         *)
(* An instruction is one atomic step of the ledger: a handler either       *)
(* returns Ok and its account writes are kept, or returns an error and     *)
(* the ledger drops every write of the transaction.  A method of an        *)
(* account struct (Config::init, Config::apply_update) works on &mut self: *)
(* what it wrote before an early return stays in the struct.               *)
(*                                                                         *)
(* outcome holds the result of the call that has just run (its arguments,  *)
(* the error it returned, the place it returned from and the accounts as   *)
(* they were before it); Return hands control back to the runtime, which   *)
(* then takes the next call.                                               *)
(*                                                                         *)
(* notes holds the accounts of the example program simple_note, which      *)
(* shares nothing with the registry but the ledger.                        *)
(***************************************************************************)
EXTENDS Integers, Sequences, FiniteSets, TLC

VARIABLES config, lifecycle, metrics, repo, forks, notes, outcome

vars == <<config, lifecycle, metrics, repo, forks, notes, outcome>>

----------------------------------------------------------------------------
(* Bounds of the model *)

\* Clock::unix_timestamp of a call is drawn from 1..MaxClock.
MaxClock == 2

----------------------------------------------------------------------------
(* Program constants *)

CURRENT_SCHEMA_VERSION == 1
MAX_FEE_BPS == 5000
BPS_DENOMINATOR == 10000
DEFAULT_MAX_MODULES_PER_REPO == 1000

\* u64::MAX.  The checker's integers are 32 bits wide, so the u64 range is
\* scaled to 0..2^31-1; the handlers only compare against this value and
\* add with overflow checks, which the scaling preserves.
U64_MAX == 2147483647

\* u16::MAX, the largest depth a caller can supply.
U16_MAX == 65535

----------------------------------------------------------------------------
(* Values *)

\* Option<T>: None is the empty tuple, Some(x) the one-element tuple.
None == <<>>
Some(x) == <<x>>
IsSome(o) == Len(o) = 1
Unwrap(o) == o[1]
Opt(S) == {None} \cup {Some(x) : x \in S}

\* Pubkeys.  DefaultKey is Pubkey::default().
Keys == {"A", "B"}
DefaultKey == "default"

ClockVals == 1..MaxClock

Ok == "Ok"

\* Nothing has run since the runtime last took control.
Idle == [op |-> "idle"]

----------------------------------------------------------------------------
(* Config (state/config.rs) *)

\* The zeroed account data that Config::init is called on.
ZeroConfig ==
  [admin |-> DefaultKey, fee_bps |-> 0, max_modules_per_repo |-> 0,
   schema_version |-> 0, is_active |-> FALSE, created_at |-> 0,
   updated_at |-> 0, policy_ref |-> 0, bump |-> 0]

\* Variant: the bound checked is the basis-point denominator, not MAX_FEE_BPS.
validate_fee_bps_denominator(fee_bps) ==
  IF fee_bps > BPS_DENOMINATOR THEN "InvalidFeeBps" ELSE Ok

\* Variant: the comparison is >= instead of >.
validate_fee_bps_strict(fee_bps) ==
  IF fee_bps >= MAX_FEE_BPS THEN "InvalidFeeBps" ELSE Ok

validate_fee_bps(fee_bps) ==
  IF fee_bps > MAX_FEE_BPS THEN "InvalidFeeBps" ELSE Ok

\* Variant: the zero check is missing.
validate_max_modules_unchecked(max_modules) == Ok

validate_max_modules(max_modules) ==
  IF max_modules = 0 THEN "ValueOutOfRange" ELSE Ok

\* Config::init: both validations, then every field is written.
\* The result is the error and the struct as the call leaves it.
ConfigInit(self, admin, fee_bps, max_modules_per_repo, policy_ref, bump, now) ==
  IF validate_fee_bps(fee_bps) # Ok
    THEN [err |-> validate_fee_bps(fee_bps), cfg |-> self]
  ELSE IF validate_max_modules(max_modules_per_repo) # Ok
    THEN [err |-> validate_max_modules(max_modules_per_repo), cfg |-> self]
  ELSE [err |-> Ok,
        cfg |-> [admin |-> admin, fee_bps |-> fee_bps,
                 max_modules_per_repo |-> max_modules_per_repo,
                 schema_version |-> CURRENT_SCHEMA_VERSION,
                 is_active |-> TRUE, created_at |-> now, updated_at |-> now,
                 policy_ref |-> policy_ref, bump |-> bump]]

\* Config::apply_update, statement by statement: each Some field is
\* validated and written in turn, so a later validation failure returns
\* with self already holding the earlier writes.
ApplyUpdateFee(self, maybe_fee_bps) ==
  IF ~IsSome(maybe_fee_bps) THEN [err |-> Ok, cfg |-> self]
  ELSE IF validate_fee_bps(Unwrap(maybe_fee_bps)) # Ok
    THEN [err |-> validate_fee_bps(Unwrap(maybe_fee_bps)), cfg |-> self]
  ELSE [err |-> Ok, cfg |-> [self EXCEPT !.fee_bps = Unwrap(maybe_fee_bps)]]

ApplyUpdateMaxModules(self, maybe_max_modules_per_repo) ==
  IF ~IsSome(maybe_max_modules_per_repo) THEN [err |-> Ok, cfg |-> self]
  ELSE IF validate_max_modules(Unwrap(maybe_max_modules_per_repo)) # Ok
    THEN [err |-> validate_max_modules(Unwrap(maybe_max_modules_per_repo)),
          cfg |-> self]
  ELSE [err |-> Ok,
        cfg |-> [self EXCEPT !.max_modules_per_repo =
                                Unwrap(maybe_max_modules_per_repo)]]

\* Variant: is_active is written as maybe_is_active.unwrap_or(false).
ApplyUpdateRest_unwrap_or(self, maybe_is_active, maybe_policy_ref, now) ==
  [self EXCEPT
     !.is_active = IsSome(maybe_is_active) /\ Unwrap(maybe_is_active),
     !.policy_ref = IF IsSome(maybe_policy_ref)
                      THEN Unwrap(maybe_policy_ref) ELSE @,
     !.updated_at = now]

\* Variant: the refresh of updated_at also rewrites created_at.
ApplyUpdateRest_touch_created(self, maybe_is_active, maybe_policy_ref, now) ==
  [self EXCEPT
     !.is_active = IF IsSome(maybe_is_active)
                     THEN Unwrap(maybe_is_active) ELSE @,
     !.policy_ref = IF IsSome(maybe_policy_ref)
                      THEN Unwrap(maybe_policy_ref) ELSE @,
     !.created_at = now,
     !.updated_at = now]

ApplyUpdateRest(self, maybe_is_active, maybe_policy_ref, now) ==
  [self EXCEPT
     !.is_active = IF IsSome(maybe_is_active)
                     THEN Unwrap(maybe_is_active) ELSE @,
     !.policy_ref = IF IsSome(maybe_policy_ref)
                      THEN Unwrap(maybe_policy_ref) ELSE @,
     !.updated_at = now]

ConfigApplyUpdate(self, maybe_fee_bps, maybe_max_modules_per_repo, maybe_is_active, maybe_policy_ref, now) ==
  LET f == ApplyUpdateFee(self, maybe_fee_bps) IN
  IF f.err # Ok THEN f
  ELSE LET m == ApplyUpdateMaxModules(f.cfg, maybe_max_modules_per_repo) IN
       IF m.err # Ok THEN m
       ELSE [err |-> Ok,
             cfg |-> ApplyUpdateRest(m.cfg, maybe_is_active,
                                     maybe_policy_ref, now)]

assert_admin(self, signer) ==
  IF signer # self.admin THEN "InvalidAdmin" ELSE Ok

\* Variant: the active flag is not consulted.
assert_active_unchecked(self) == Ok

assert_active(self) ==
  IF ~self.is_active THEN "InvalidLifecycleState" ELSE Ok

----------------------------------------------------------------------------
(* The other accounts, as they are once the deployment is initialised *)

\* Lifecycle: the global phase that gates every write instruction.
InitLifecycle == [phase |-> "active"]

\* Metrics: six u64 aggregate counters and updated_at.
InitMetrics ==
  [total_repos |-> 0, total_modules |-> 0, total_forks |-> 0,
   total_observations |-> 0, total_lines_of_code |-> 0,
   total_files_processed |-> 0, updated_at |-> 0]

\* The accounts a call can read or write, as one value.
Accounts ==
  [config |-> config, lifecycle |-> lifecycle, metrics |-> metrics,
   repo |-> repo, forks |-> forks]

----------------------------------------------------------------------------
(* Calls of the Config methods *)

FeeVals == {0, MAX_FEE_BPS, MAX_FEE_BPS + 1}
ModuleVals == {0, 1, DEFAULT_MAX_MODULES_PER_REPO}
PolicyRefs == {1, 2}
Bumps == {255}

\* Config::init on the freshly created (zeroed) account.  The account is
\* created once: init runs only while no Config has been initialised.
CallConfigInit ==
  /\ outcome = Idle
  /\ config.schema_version = 0
  /\ \E admin \in Keys, fee_bps \in FeeVals, max_modules_per_repo \in ModuleVals,
        policy_ref \in PolicyRefs, bump \in Bumps, now \in ClockVals :
       LET r == ConfigInit(config, admin, fee_bps, max_modules_per_repo,
                           policy_ref, bump, now) IN
       /\ config' = r.cfg
       /\ outcome' = [op |-> "init", admin |-> admin, fee_bps |-> fee_bps,
                      max_modules_per_repo |-> max_modules_per_repo,
                      policy_ref |-> policy_ref, now |-> now,
                      err |-> r.err, pre |-> Accounts]
  /\ UNCHANGED <<lifecycle, metrics, repo, forks, notes>>

\* Config::apply_update on the initialised account.
CallApplyUpdate ==
  /\ outcome = Idle
  /\ config.schema_version = CURRENT_SCHEMA_VERSION
  /\ \E maybe_fee_bps \in Opt(FeeVals),
        maybe_max_modules_per_repo \in Opt(ModuleVals),
        maybe_is_active \in Opt(BOOLEAN),
        maybe_policy_ref \in Opt(PolicyRefs), now \in ClockVals :
       LET r == ConfigApplyUpdate(config, maybe_fee_bps,
                                  maybe_max_modules_per_repo,
                                  maybe_is_active, maybe_policy_ref, now) IN
       /\ config' = r.cfg
       /\ outcome' = [op |-> "apply_update", maybe_fee_bps |-> maybe_fee_bps,
                      maybe_max_modules_per_repo |-> maybe_max_modules_per_repo,
                      maybe_is_active |-> maybe_is_active,
                      maybe_policy_ref |-> maybe_policy_ref, now |-> now,
                      err |-> r.err, pre |-> Accounts]
  /\ UNCHANGED <<lifecycle, metrics, repo, forks, notes>>

\* Control goes back to the runtime, which may then take the next call.
Return ==
  /\ outcome # Idle
  /\ outcome' = Idle
  /\ UNCHANGED <<config, lifecycle, metrics, repo, forks, notes>>

InitConfig ==
  /\ config = ZeroConfig
  /\ lifecycle = InitLifecycle
  /\ metrics = InitMetrics
  /\ repo = <<>>
  /\ forks = <<>>
  /\ notes = <<>>
  /\ outcome = Idle

NextConfig == CallConfigInit \/ CallApplyUpdate \/ Return

\* The Config account under its own methods.
SpecConfig == InitConfig /\ [][NextConfig]_vars

----------------------------------------------------------------------------
(* Lifecycle and Metrics (state structs used by the handlers) *)

\* Lifecycle::assert_writes_allowed: fails when the global phase forbids
\* mutation.
assert_writes_allowed(self) ==
  IF self.phase # "active" THEN "InvalidLifecycleState" ELSE Ok

MetricsFields ==
  <<"total_repos", "total_modules", "total_forks", "total_observations",
    "total_lines_of_code", "total_files_processed">>

\* Metrics::adjust_aggregate: rejects the sentinel u64::MAX in any field,
\* otherwise overwrites each counter whose argument is Some and refreshes
\* updated_at.
adjust_aggregate(self, total_repos, total_modules, total_forks, total_observations, total_lines_of_code, total_files_processed, now) ==
  LET arg == [total_repos |-> total_repos, total_modules |-> total_modules,
              total_forks |-> total_forks,
              total_observations |-> total_observations,
              total_lines_of_code |-> total_lines_of_code,
              total_files_processed |-> total_files_processed] IN
  IF \E i \in 1..Len(MetricsFields) : arg[MetricsFields[i]] = Some(U64_MAX)
    THEN [err |-> "ValueOutOfRange", metrics |-> self]
  ELSE [err |-> Ok,
        metrics |->
          [f \in DOMAIN self |->
             IF f = "updated_at" THEN now
             ELSE IF IsSome(arg[f]) THEN Unwrap(arg[f]) ELSE self[f]]]

----------------------------------------------------------------------------
(* record_metrics (instructions/record_metrics.rs) *)

\* What a handler returns: the error, the statement it returned from, the
\* accounts as the handler leaves them in memory, and the event emitted.
Result(err, at, mem, event) ==
  [err |-> err, at |-> at, mem |-> mem, event |-> event]

\* Variant: the check of total_files_processed returns MetricsInconsistent.
RecordMetricsValidate_other_code(args) ==
  IF IsSome(args.total_repos) /\ Unwrap(args.total_repos) = U64_MAX
    THEN "ValueOutOfRange"
  ELSE IF IsSome(args.total_modules) /\ Unwrap(args.total_modules) = U64_MAX
    THEN "ValueOutOfRange"
  ELSE IF IsSome(args.total_forks) /\ Unwrap(args.total_forks) = U64_MAX
    THEN "ValueOutOfRange"
  ELSE IF IsSome(args.total_observations)
            /\ Unwrap(args.total_observations) = U64_MAX
    THEN "ValueOutOfRange"
  ELSE IF IsSome(args.total_lines_of_code)
            /\ Unwrap(args.total_lines_of_code) = U64_MAX
    THEN "ValueOutOfRange"
  ELSE IF IsSome(args.total_files_processed)
            /\ Unwrap(args.total_files_processed) = U64_MAX
    THEN "MetricsInconsistent"
  ELSE Ok

\* The light validation of the six optional values, in the order of the code.
RecordMetricsValidate(args) ==
  IF IsSome(args.total_repos) /\ Unwrap(args.total_repos) = U64_MAX
    THEN "ValueOutOfRange"
  ELSE IF IsSome(args.total_modules) /\ Unwrap(args.total_modules) = U64_MAX
    THEN "ValueOutOfRange"
  ELSE IF IsSome(args.total_forks) /\ Unwrap(args.total_forks) = U64_MAX
    THEN "ValueOutOfRange"
  ELSE IF IsSome(args.total_observations)
            /\ Unwrap(args.total_observations) = U64_MAX
    THEN "ValueOutOfRange"
  ELSE IF IsSome(args.total_lines_of_code)
            /\ Unwrap(args.total_lines_of_code) = U64_MAX
    THEN "ValueOutOfRange"
  ELSE IF IsSome(args.total_files_processed)
            /\ Unwrap(args.total_files_processed) = U64_MAX
    THEN "ValueOutOfRange"
  ELSE Ok

\* Variant: each supplied value is added to the counter it names.
RecordMetricsAdjust_additive(self, args, now) ==
  LET sum(f) == IF IsSome(args[f]) THEN Some(self[f] + Unwrap(args[f]))
                ELSE None IN
  adjust_aggregate(self, sum("total_repos"), sum("total_modules"),
                   sum("total_forks"), sum("total_observations"),
                   sum("total_lines_of_code"), sum("total_files_processed"),
                   now)

\* Variant: total_repos and total_modules are passed in each other's place.
RecordMetricsAdjust_swapped(self, args, now) ==
  adjust_aggregate(self, args.total_modules, args.total_repos,
                   args.total_forks, args.total_observations,
                   args.total_lines_of_code, args.total_files_processed, now)

\* The handler's call of Metrics::adjust_aggregate.
RecordMetricsAdjust(self, args, now) ==
  adjust_aggregate(self, args.total_repos, args.total_modules,
                   args.total_forks, args.total_observations,
                   args.total_lines_of_code, args.total_files_processed, now)

\* Variant: total_forks and total_observations are written into each
\* other's event field.
MetricsReconciled_swapped(admin, m) ==
  [name |-> "MetricsReconciled", admin |-> admin,
   total_repos |-> m.total_repos, total_modules |-> m.total_modules,
   total_forks |-> m.total_observations,
   total_observations |-> m.total_forks,
   total_lines_of_code |-> m.total_lines_of_code,
   total_files_processed |-> m.total_files_processed,
   updated_at |-> m.updated_at]

\* The event of record_metrics, built from the Metrics account after the
\* overwrite.
MetricsReconciled(admin, m) ==
  [name |-> "MetricsReconciled", admin |-> admin,
   total_repos |-> m.total_repos, total_modules |-> m.total_modules,
   total_forks |-> m.total_forks,
   total_observations |-> m.total_observations,
   total_lines_of_code |-> m.total_lines_of_code,
   total_files_processed |-> m.total_files_processed,
   updated_at |-> m.updated_at]

\* Variant: the guards run as lifecycle, config active, admin.
RecordMetricsGuards_active_first(acc, admin) ==
  IF assert_writes_allowed(acc.lifecycle) # Ok
    THEN [err |-> assert_writes_allowed(acc.lifecycle), at |-> "lifecycle"]
  ELSE IF assert_active(acc.config) # Ok
    THEN [err |-> assert_active(acc.config), at |-> "config_active"]
  ELSE IF assert_admin(acc.config, admin) # Ok
    THEN [err |-> assert_admin(acc.config, admin), at |-> "admin"]
  ELSE [err |-> Ok, at |-> "guards"]

\* Variant: the lifecycle guard is missing.
RecordMetricsGuards_no_lifecycle(acc, admin) ==
  IF assert_admin(acc.config, admin) # Ok
    THEN [err |-> assert_admin(acc.config, admin), at |-> "admin"]
  ELSE IF assert_active(acc.config) # Ok
    THEN [err |-> assert_active(acc.config), at |-> "config_active"]
  ELSE [err |-> Ok, at |-> "guards"]

\* Variant: the admin guard is missing.
RecordMetricsGuards_no_admin(acc, admin) ==
  IF assert_writes_allowed(acc.lifecycle) # Ok
    THEN [err |-> assert_writes_allowed(acc.lifecycle), at |-> "lifecycle"]
  ELSE IF assert_active(acc.config) # Ok
    THEN [err |-> assert_active(acc.config), at |-> "config_active"]
  ELSE [err |-> Ok, at |-> "guards"]

\* The lifecycle and config guards of record_metrics, in the order of the
\* code: lifecycle, admin, config active.
RecordMetricsGuards(acc, admin) ==
  IF assert_writes_allowed(acc.lifecycle) # Ok
    THEN [err |-> assert_writes_allowed(acc.lifecycle), at |-> "lifecycle"]
  ELSE IF assert_admin(acc.config, admin) # Ok
    THEN [err |-> assert_admin(acc.config, admin), at |-> "admin"]
  ELSE IF assert_active(acc.config) # Ok
    THEN [err |-> assert_active(acc.config), at |-> "config_active"]
  ELSE [err |-> Ok, at |-> "guards"]

\* record_metrics::handle on the accounts acc, signed by admin.
RecordMetricsHandle(acc, admin, args, now) ==
  LET g == RecordMetricsGuards(acc, admin) IN
  IF g.err # Ok THEN Result(g.err, g.at, acc, None)
  ELSE IF RecordMetricsValidate(args) # Ok
    THEN Result(RecordMetricsValidate(args), "validation", acc, None)
  ELSE
    LET a == RecordMetricsAdjust(acc.metrics, args, now) IN
    IF a.err # Ok
      THEN Result(a.err, "adjust_aggregate",
                  [acc EXCEPT !.metrics = a.metrics], None)
    ELSE
      LET m == [a.metrics EXCEPT !.updated_at = now] IN
      Result(Ok, "end", [acc EXCEPT !.metrics = m],
             Some(MetricsReconciled(acc.config.admin, m)))

----------------------------------------------------------------------------
(* Repo and Fork (state structs used by the handlers) *)

\* A String is modelled by its length in bytes: the handlers read only
\* is_empty() and len(), and store the value as it is.

MAX_LOC_PER_OBSERVATION == 10000000
MAX_FILES_PER_OBSERVATION == 100000
MAX_MODULES_PER_OBSERVATION == 1000
MAX_REVISION_LEN == 64
MAX_OBSERVATION_NOTE_LEN == 256
MAX_NAME_LEN == 64
MAX_METADATA_URI_LEN == 256
MAX_TAGS_LEN == 128
MAX_LABEL_LEN == MAX_NAME_LEN

\* The cap on observations per repository (a policy knob of the deployment).
ObservationCap == 2

\* A registered repository that has not been observed yet.
InitRepo ==
  [is_active |-> TRUE, allow_observation |-> TRUE, observation_count |-> 0,
   total_lines_of_code |-> 0, total_files_processed |-> 0,
   total_modules_touched |-> 0, last_revision |-> 0, last_note |-> 0,
   last_observer |-> DefaultKey, last_observed_at |-> 0]

repo_assert_active(self) ==
  IF ~self.is_active THEN "RepoInactive" ELSE Ok

repo_assert_observable(self) ==
  IF ~self.allow_observation THEN "ObservationNotAllowed" ELSE Ok

\* Repo::record_observation: re-validates the string lengths, enforces the
\* observation cap, adds to the per-repo counters with overflow checks,
\* stores revision and note and sets last_observed_at.
repo_record_observation(self, lines_of_code, files_processed, modules_touched, revision, note, observer, now) ==
  IF revision > MAX_REVISION_LEN \/ note > MAX_OBSERVATION_NOTE_LEN
    THEN [err |-> "StringTooLong", repo |-> self]
  ELSE IF self.observation_count >= ObservationCap
    THEN [err |-> "RepoObservationLimitReached", repo |-> self]
  ELSE IF \/ self.observation_count > U64_MAX - 1
          \/ self.total_lines_of_code > U64_MAX - lines_of_code
          \/ self.total_files_processed > U64_MAX - files_processed
          \/ self.total_modules_touched > U64_MAX - modules_touched
    THEN [err |-> "CounterOverflow", repo |-> self]
  ELSE [err |-> Ok,
        repo |-> [self EXCEPT
                    !.observation_count = @ + 1,
                    !.total_lines_of_code = @ + lines_of_code,
                    !.total_files_processed = @ + files_processed,
                    !.total_modules_touched = @ + modules_touched,
                    !.last_revision = revision,
                    !.last_note = note,
                    !.last_observer = observer,
                    !.last_observed_at = now]]

\* Metrics::record_observation: one more observation, loc and files added,
\* with overflow checks.
metrics_record_observation(self, lines_of_code, files_processed, now) ==
  IF \/ self.total_observations > U64_MAX - 1
     \/ self.total_lines_of_code > U64_MAX - lines_of_code
     \/ self.total_files_processed > U64_MAX - files_processed
    THEN [err |-> "CounterOverflow", metrics |-> self]
  ELSE [err |-> Ok,
        metrics |-> [self EXCEPT
                       !.total_observations = @ + 1,
                       !.total_lines_of_code = @ + lines_of_code,
                       !.total_files_processed = @ + files_processed,
                       !.updated_at = now]]

\* No Fork account exists at the address derived from a fork_key.
NoFork == [exists |-> FALSE]

\* Fork::init: re-validates the strings and writes every field.
fork_init(fork_key, parent, owner, label, metadata_uri, tags, is_root, depth, bump, now) ==
  IF label = 0 \/ metadata_uri = 0
    THEN [err |-> "StringEmpty", fork |-> NoFork]
  ELSE IF \/ label > MAX_LABEL_LEN
          \/ metadata_uri > MAX_METADATA_URI_LEN
          \/ tags > MAX_TAGS_LEN
    THEN [err |-> "StringTooLong", fork |-> NoFork]
  ELSE [err |-> Ok,
        fork |-> [exists |-> TRUE, fork_key |-> fork_key, parent |-> parent,
                  owner |-> owner, label |-> label,
                  metadata_uri |-> metadata_uri, tags |-> tags,
                  is_root |-> is_root, depth |-> depth, is_active |-> TRUE,
                  created_at |-> now, updated_at |-> now, bump |-> bump]]

----------------------------------------------------------------------------
(* record_observation (instructions/record_observation.rs) *)

\* Variant: the lifecycle guard runs after the config and repo guards.
RecordObservationGuards_lifecycle_last(acc) ==
  IF assert_active(acc.config) # Ok
    THEN [err |-> assert_active(acc.config), at |-> "config_active"]
  ELSE IF repo_assert_active(acc.repo) # Ok
    THEN [err |-> repo_assert_active(acc.repo), at |-> "repo_active"]
  ELSE IF repo_assert_observable(acc.repo) # Ok
    THEN [err |-> repo_assert_observable(acc.repo), at |-> "repo_observable"]
  ELSE IF assert_writes_allowed(acc.lifecycle) # Ok
    THEN [err |-> assert_writes_allowed(acc.lifecycle), at |-> "lifecycle"]
  ELSE [err |-> Ok, at |-> "guards"]

\* Variant: Repo::assert_observable is not called.
RecordObservationGuards_no_observable(acc) ==
  IF assert_writes_allowed(acc.lifecycle) # Ok
    THEN [err |-> assert_writes_allowed(acc.lifecycle), at |-> "lifecycle"]
  ELSE IF assert_active(acc.config) # Ok
    THEN [err |-> assert_active(acc.config), at |-> "config_active"]
  ELSE IF repo_assert_active(acc.repo) # Ok
    THEN [err |-> repo_assert_active(acc.repo), at |-> "repo_active"]
  ELSE [err |-> Ok, at |-> "guards"]

\* The guards of record_observation, in the order of the code.
RecordObservationGuards(acc) ==
  IF assert_writes_allowed(acc.lifecycle) # Ok
    THEN [err |-> assert_writes_allowed(acc.lifecycle), at |-> "lifecycle"]
  ELSE IF assert_active(acc.config) # Ok
    THEN [err |-> assert_active(acc.config), at |-> "config_active"]
  ELSE IF repo_assert_active(acc.repo) # Ok
    THEN [err |-> repo_assert_active(acc.repo), at |-> "repo_active"]
  ELSE IF repo_assert_observable(acc.repo) # Ok
    THEN [err |-> repo_assert_observable(acc.repo), at |-> "repo_observable"]
  ELSE [err |-> Ok, at |-> "guards"]

\* Variant: the zero check guards modules_touched instead of
\* files_processed.
RecordObservationValidate_zero_modules(args) ==
  IF args.lines_of_code = 0 THEN "ValueOutOfRange"
  ELSE IF args.lines_of_code > MAX_LOC_PER_OBSERVATION
    THEN "ObservationDataTooLarge"
  ELSE IF args.modules_touched = 0 THEN "ValueOutOfRange"
  ELSE IF args.files_processed > MAX_FILES_PER_OBSERVATION
    THEN "ObservationDataTooLarge"
  ELSE IF args.modules_touched > MAX_MODULES_PER_OBSERVATION
    THEN "ObservationDataTooLarge"
  ELSE IF args.revision > MAX_REVISION_LEN THEN "StringTooLong"
  ELSE IF args.note > MAX_OBSERVATION_NOTE_LEN THEN "StringTooLong"
  ELSE Ok

\* Variant: lines_of_code equal to MAX_LOC_PER_OBSERVATION is rejected too.
RecordObservationValidate_loc_exclusive(args) ==
  IF args.lines_of_code = 0 THEN "ValueOutOfRange"
  ELSE IF args.lines_of_code >= MAX_LOC_PER_OBSERVATION
    THEN "ObservationDataTooLarge"
  ELSE IF args.files_processed = 0 THEN "ValueOutOfRange"
  ELSE IF args.files_processed > MAX_FILES_PER_OBSERVATION
    THEN "ObservationDataTooLarge"
  ELSE IF args.modules_touched > MAX_MODULES_PER_OBSERVATION
    THEN "ObservationDataTooLarge"
  ELSE IF args.revision > MAX_REVISION_LEN THEN "StringTooLong"
  ELSE IF args.note > MAX_OBSERVATION_NOTE_LEN THEN "StringTooLong"
  ELSE Ok

\* The early validation of the numeric and string fields.
RecordObservationValidate(args) ==
  IF args.lines_of_code = 0 THEN "ValueOutOfRange"
  ELSE IF args.lines_of_code > MAX_LOC_PER_OBSERVATION
    THEN "ObservationDataTooLarge"
  ELSE IF args.files_processed = 0 THEN "ValueOutOfRange"
  ELSE IF args.files_processed > MAX_FILES_PER_OBSERVATION
    THEN "ObservationDataTooLarge"
  ELSE IF args.modules_touched > MAX_MODULES_PER_OBSERVATION
    THEN "ObservationDataTooLarge"
  ELSE IF args.revision > MAX_REVISION_LEN THEN "StringTooLong"
  ELSE IF args.note > MAX_OBSERVATION_NOTE_LEN THEN "StringTooLong"
  ELSE Ok

ObservationRecorded(observer, args, r) ==
  [name |-> "ObservationRecorded", observer |-> observer,
   lines_of_code |-> args.lines_of_code,
   files_processed |-> args.files_processed,
   modules_touched |-> args.modules_touched, revision |-> args.revision,
   note |-> args.note, observed_at |-> r.last_observed_at]

\* Variant: the global counters are overwritten with the values of this
\* observation (the reconciliation path in place of the increment path).
RecordObservationAggregate_reconcile(self, args, now) ==
  adjust_aggregate(self, None, None, None, Some(1),
                   Some(args.lines_of_code), Some(args.files_processed), now)

\* Variant: lines_of_code and files_processed are passed in each other's
\* place.
RecordObservationAggregate_swapped(self, args, now) ==
  metrics_record_observation(self, args.files_processed, args.lines_of_code,
                             now)

\* The handler's call of Metrics::record_observation.
RecordObservationAggregate(self, args, now) ==
  metrics_record_observation(self, args.lines_of_code, args.files_processed,
                             now)

\* Variant: the result of the global aggregation is dropped, so the handler
\* returns Ok with the per-repo update applied when the aggregation fails.
RecordObservationHandle_ignore_overflow(acc, observer, args, now) ==
  LET g == RecordObservationGuards(acc) IN
  IF g.err # Ok THEN Result(g.err, g.at, acc, None)
  ELSE IF RecordObservationValidate(args) # Ok
    THEN Result(RecordObservationValidate(args), "validation", acc, None)
  ELSE
    LET r == repo_record_observation(acc.repo, args.lines_of_code,
                                     args.files_processed,
                                     args.modules_touched, args.revision,
                                     args.note, observer, now) IN
    IF r.err # Ok
      THEN Result(r.err, "repo_record_observation",
                  [acc EXCEPT !.repo = r.repo], None)
    ELSE
      LET m == RecordObservationAggregate(acc.metrics, args, now) IN
      Result(Ok, "end",
             [acc EXCEPT !.repo = r.repo,
                         !.metrics = [m.metrics EXCEPT !.updated_at = now]],
             Some(ObservationRecorded(observer, args, r.repo)))

\* record_observation::handle on the accounts acc, signed by observer.
RecordObservationHandle(acc, observer, args, now) ==
  LET g == RecordObservationGuards(acc) IN
  IF g.err # Ok THEN Result(g.err, g.at, acc, None)
  ELSE IF RecordObservationValidate(args) # Ok
    THEN Result(RecordObservationValidate(args), "validation", acc, None)
  ELSE
    LET r == repo_record_observation(acc.repo, args.lines_of_code,
                                     args.files_processed,
                                     args.modules_touched, args.revision,
                                     args.note, observer, now) IN
    IF r.err # Ok
      THEN Result(r.err, "repo_record_observation",
                  [acc EXCEPT !.repo = r.repo], None)
    ELSE
      LET m == RecordObservationAggregate(acc.metrics, args, now) IN
      IF m.err # Ok
        THEN Result(m.err, "metrics_record_observation",
                    [acc EXCEPT !.repo = r.repo, !.metrics = m.metrics], None)
      ELSE Result(Ok, "end",
                  [acc EXCEPT !.repo = r.repo,
                              !.metrics = [m.metrics EXCEPT !.updated_at = now]],
                  Some(ObservationRecorded(observer, args, r.repo)))

----------------------------------------------------------------------------
(* create_fork (instructions/create_fork.rs) *)

\* Variant: the config guard runs before the lifecycle guard.
CreateForkGuards_active_first(acc) ==
  IF assert_active(acc.config) # Ok
    THEN [err |-> assert_active(acc.config), at |-> "config_active"]
  ELSE IF assert_writes_allowed(acc.lifecycle) # Ok
    THEN [err |-> assert_writes_allowed(acc.lifecycle), at |-> "lifecycle"]
  ELSE [err |-> Ok, at |-> "guards"]

\* The guards of create_fork, in the order of the code.
CreateForkGuards(acc) ==
  IF assert_writes_allowed(acc.lifecycle) # Ok
    THEN [err |-> assert_writes_allowed(acc.lifecycle), at |-> "lifecycle"]
  ELSE IF assert_active(acc.config) # Ok
    THEN [err |-> assert_active(acc.config), at |-> "config_active"]
  ELSE [err |-> Ok, at |-> "guards"]

\* Variant: a label of exactly MAX_LABEL_LEN bytes is rejected too.
CreateForkValidate_label_exclusive(args) ==
  IF args.label = 0 THEN "StringEmpty"
  ELSE IF args.label >= MAX_LABEL_LEN THEN "StringTooLong"
  ELSE IF args.metadata_uri = 0 THEN "StringEmpty"
  ELSE IF args.metadata_uri > MAX_METADATA_URI_LEN THEN "StringTooLong"
  ELSE IF args.tags > MAX_TAGS_LEN THEN "StringTooLong"
  ELSE Ok

\* The early validation of label, metadata_uri and tags.
CreateForkValidate(args) ==
  IF args.label = 0 THEN "StringEmpty"
  ELSE IF args.label > MAX_LABEL_LEN THEN "StringTooLong"
  ELSE IF args.metadata_uri = 0 THEN "StringEmpty"
  ELSE IF args.metadata_uri > MAX_METADATA_URI_LEN THEN "StringTooLong"
  ELSE IF args.tags > MAX_TAGS_LEN THEN "StringTooLong"
  ELSE Ok

\* Variant: a root fork is stored without a parent.
CreateForkParent_root_default(args) ==
  IF IsSome(args.parent) /\ ~args.is_root THEN Unwrap(args.parent)
  ELSE DefaultKey

\* parent defaults to Pubkey::default().
CreateForkParent(args) ==
  IF IsSome(args.parent) THEN Unwrap(args.parent) ELSE DefaultKey

\* Variant: a root fork is stored at depth 0 whatever depth the caller gave.
CreateForkDepth_root_zero(args) ==
  IF args.is_root THEN 0
  ELSE IF IsSome(args.depth) THEN Unwrap(args.depth) ELSE 1

\* depth defaults to 0 for a root fork and 1 otherwise.
CreateForkDepth(args) ==
  IF IsSome(args.depth) THEN Unwrap(args.depth)
  ELSE IF args.is_root THEN 0 ELSE 1

ForkCreated(f) ==
  [name |-> "ForkCreated", fork |-> f.fork_key, owner |-> f.owner,
   parent |-> f.parent, is_root |-> f.is_root, depth |-> f.depth,
   created_at |-> f.created_at]

\* Variant: the parent and the owner are passed in each other's place.
CreateForkInit_swapped_keys(owner, args, bump, now) ==
  fork_init(args.fork_key, owner, CreateForkParent(args), args.label,
            args.metadata_uri, args.tags, args.is_root,
            CreateForkDepth(args), bump, now)

\* The handler's call of Fork::init.
CreateForkInit(owner, args, bump, now) ==
  fork_init(args.fork_key, CreateForkParent(args), owner, args.label,
            args.metadata_uri, args.tags, args.is_root,
            CreateForkDepth(args), bump, now)

\* Variant: the fork account is declared init_if_needed, so an account that
\* exists is handed to the handler.
ForkAccountInit_if_needed(acc, fork_key) == Ok

\* The init constraint on the fork account: the runtime creates the account
\* at the address derived from fork_key and fails when one exists there.
ForkAccountInit(acc, fork_key) ==
  IF acc.forks[fork_key] # NoFork THEN "AccountAlreadyInUse" ELSE Ok

\* create_fork::handle on the accounts acc; owner is the owner signer.
CreateForkHandle(acc, owner, args, bump, now) ==
  LET g == CreateForkGuards(acc) IN
  IF g.err # Ok THEN Result(g.err, g.at, acc, None)
  ELSE IF CreateForkValidate(args) # Ok
    THEN Result(CreateForkValidate(args), "validation", acc, None)
  ELSE
    LET f == CreateForkInit(owner, args, bump, now) IN
    IF f.err # Ok THEN Result(f.err, "fork_init", acc, None)
    ELSE Result(Ok, "end",
                [acc EXCEPT !.forks = [@ EXCEPT ![args.fork_key] = f.fork]],
                Some(ForkCreated(f.fork)))

----------------------------------------------------------------------------
(* update_fork_state (its handler follows the instruction handler protocol) *)

\* The owner check of a Fork.
fork_assert_owner(self, signer) ==
  IF self.owner # signer THEN "InvalidForkOwner" ELSE Ok

\* The mutation of label, metadata_uri, tags and the active flag: each Some
\* value is validated as Fork::init validates it and then stored.
fork_update_state(self, maybe_label, maybe_metadata_uri, maybe_tags, maybe_is_active, now) ==
  IF \/ IsSome(maybe_label) /\ Unwrap(maybe_label) = 0
     \/ IsSome(maybe_metadata_uri) /\ Unwrap(maybe_metadata_uri) = 0
    THEN [err |-> "StringEmpty", fork |-> self]
  ELSE IF \/ IsSome(maybe_label) /\ Unwrap(maybe_label) > MAX_LABEL_LEN
          \/ IsSome(maybe_metadata_uri)
               /\ Unwrap(maybe_metadata_uri) > MAX_METADATA_URI_LEN
          \/ IsSome(maybe_tags) /\ Unwrap(maybe_tags) > MAX_TAGS_LEN
    THEN [err |-> "StringTooLong", fork |-> self]
  ELSE [err |-> Ok,
        fork |-> [self EXCEPT
                    !.label = IF IsSome(maybe_label)
                                THEN Unwrap(maybe_label) ELSE @,
                    !.metadata_uri = IF IsSome(maybe_metadata_uri)
                                       THEN Unwrap(maybe_metadata_uri) ELSE @,
                    !.tags = IF IsSome(maybe_tags)
                               THEN Unwrap(maybe_tags) ELSE @,
                    !.is_active = IF IsSome(maybe_is_active)
                                    THEN Unwrap(maybe_is_active) ELSE @,
                    !.updated_at = now]]

\* update_fork_state on the Fork at args.fork_key, signed by owner: the
\* lifecycle guard, the Config guard, the owner check, then the mutation.
UpdateForkStateHandle(acc, owner, args, now) ==
  LET fork == acc.forks[args.fork_key] IN
  IF assert_writes_allowed(acc.lifecycle) # Ok
    THEN Result(assert_writes_allowed(acc.lifecycle), "lifecycle", acc, None)
  ELSE IF assert_active(acc.config) # Ok
    THEN Result(assert_active(acc.config), "config_active", acc, None)
  ELSE IF fork_assert_owner(fork, owner) # Ok
    THEN Result(fork_assert_owner(fork, owner), "fork_owner", acc, None)
  ELSE
    LET u == fork_update_state(fork, args.label, args.metadata_uri,
                               args.tags, args.is_active, now) IN
    IF u.err # Ok THEN Result(u.err, "fork_update_state", acc, None)
    ELSE Result(Ok, "end",
                [acc EXCEPT !.forks = [@ EXCEPT ![args.fork_key] = u.fork]],
                None)

----------------------------------------------------------------------------
(* The instructions as steps of the ledger *)

ForkKeys == {"F1"}

\* The deployment after initialize: Config::init has run with valid
\* arguments, writes are allowed, the counters are zero, one repository is
\* registered and no fork exists.
DeployedConfig ==
  ConfigInit(ZeroConfig, "A", 0, DEFAULT_MAX_MODULES_PER_REPO, 1, 255, 1).cfg

Init ==
  /\ config = DeployedConfig
  /\ lifecycle = InitLifecycle
  /\ metrics = [InitMetrics EXCEPT !.updated_at = 1]
  /\ repo = InitRepo
  /\ forks = [k \in ForkKeys |-> NoFork]
  /\ notes = <<>>
  /\ outcome = Idle

\* The ledger keeps the handler's writes when it returns Ok and drops them
\* when it returns an error.
Commit(r) ==
  LET kept == IF r.err = Ok THEN r.mem ELSE Accounts IN
  /\ config' = kept.config
  /\ lifecycle' = kept.lifecycle
  /\ metrics' = kept.metrics
  /\ repo' = kept.repo
  /\ forks' = kept.forks
  /\ UNCHANGED notes

Outcome(op, signer, args, now, r) ==
  [op |-> op, signer |-> signer, args |-> args, now |-> now, err |-> r.err,
   at |-> r.at, mem |-> r.mem, event |-> r.event, pre |-> Accounts]

\* record_metrics, with the argument record drawn from ArgSet.
ExecRecordMetrics(ArgSet) ==
  /\ outcome = Idle
  /\ \E admin \in Keys, args \in ArgSet, now \in ClockVals :
       LET r == RecordMetricsHandle(Accounts, admin, args, now) IN
       /\ Commit(r)
       /\ outcome' = Outcome("record_metrics", admin, args, now, r)

\* record_observation on the registered repository.
ExecRecordObservation(ArgSet) ==
  /\ outcome = Idle
  /\ \E observer \in Keys, args \in ArgSet, now \in ClockVals :
       LET r == RecordObservationHandle(Accounts, observer, args, now) IN
       /\ Commit(r)
       /\ outcome' = Outcome("record_observation", observer, args, now, r)

\* create_fork.  The init constraint on the fork account lets the handler
\* run only when no account exists at the address derived from fork_key.
ExecCreateFork(ArgSet) ==
  /\ outcome = Idle
  /\ \E owner \in Keys, args \in ArgSet, bump \in Bumps, now \in ClockVals :
       /\ ForkAccountInit(Accounts, args.fork_key) = Ok
       /\ LET r == CreateForkHandle(Accounts, owner, args, bump, now) IN
          /\ Commit(r)
          /\ outcome' = Outcome("create_fork", owner, args, now, r)

\* create_fork for a fork_key whose account exists: the runtime rejects the
\* instruction while creating the account, and the handler does not run.
RejectCreateFork(ArgSet) ==
  /\ outcome = Idle
  /\ \E owner \in Keys, args \in ArgSet, now \in ClockVals :
       /\ ForkAccountInit(Accounts, args.fork_key) # Ok
       /\ outcome' = Outcome("create_fork_rejected", owner, args, now,
                             Result(ForkAccountInit(Accounts, args.fork_key),
                                    "accounts", Accounts, None))
  /\ UNCHANGED <<config, lifecycle, metrics, repo, forks, notes>>

\* update_fork_state on a Fork account that exists.
ExecUpdateForkState(ArgSet) ==
  /\ outcome = Idle
  /\ \E owner \in Keys, args \in ArgSet, now \in ClockVals :
       /\ forks[args.fork_key] # NoFork
       /\ LET r == UpdateForkStateHandle(Accounts, owner, args, now) IN
          /\ Commit(r)
          /\ outcome' = Outcome("update_fork_state", owner, args, now, r)

\* The admin moves the global phase (an admin-privileged instruction).
SetLifecyclePhase ==
  /\ outcome = Idle
  /\ \E phase \in {"active", "frozen"} :
       /\ phase # lifecycle.phase
       /\ lifecycle' = [lifecycle EXCEPT !.phase = phase]
  /\ UNCHANGED <<config, metrics, repo, forks, notes, outcome>>

\* set_config by the admin, switching the active flag through
\* Config::apply_update.
SetConfigActive ==
  /\ outcome = Idle
  /\ \E is_active \in BOOLEAN, now \in ClockVals :
       /\ is_active # config.is_active
       /\ config' = ConfigApplyUpdate(config, None, None, Some(is_active),
                                      None, now).cfg
  /\ UNCHANGED <<lifecycle, metrics, repo, forks, notes, outcome>>

\* update_repo by the repository's authority, switching its flags.
UpdateRepoFlags ==
  /\ outcome = Idle
  /\ \E is_active \in BOOLEAN, allow_observation \in BOOLEAN :
       /\ <<is_active, allow_observation>>
            # <<repo.is_active, repo.allow_observation>>
       /\ repo' = [repo EXCEPT !.is_active = is_active,
                               !.allow_observation = allow_observation]
  /\ UNCHANGED <<config, lifecycle, metrics, forks, notes, outcome>>

----------------------------------------------------------------------------
(* Argument records *)

\* A counter value the reconciliation accepts.
MetricVal == 3

NoMetricsArgs == [i \in 1..Len(MetricsFields) |-> None]

\* Six Options as a RecordMetricsArgs record.
MetricsArgs(o) ==
  [total_repos |-> o[1], total_modules |-> o[2], total_forks |-> o[3],
   total_observations |-> o[4], total_lines_of_code |-> o[5],
   total_files_processed |-> o[6]]

\* At most MaxSupplied of the six fields are Some, each Some being an
\* accepted value or the sentinel u64::MAX.
MaxSupplied == 2

MetricsArgsSupplied ==
  { MetricsArgs(o) :
      o \in { x \in [1..Len(MetricsFields) -> Opt({MetricVal, U64_MAX})] :
                Cardinality({i \in DOMAIN x : IsSome(x[i])}) <= MaxSupplied } }

\* All six fields alike (None or an accepted value), or all accepted but the
\* first or the last, which holds the sentinel.
MetricsArgsUniform ==
  { MetricsArgs([i \in 1..Len(MetricsFields) |-> o]) :
      o \in Opt({MetricVal}) }
  \cup { MetricsArgs([i \in 1..Len(MetricsFields) |->
                        IF i = j THEN Some(U64_MAX) ELSE Some(MetricVal)]) :
           j \in {1, Len(MetricsFields)} }

ObservationArgsSmall ==
  [lines_of_code : {1}, files_processed : {1}, modules_touched : {0},
   revision : {7}, note : {0, MAX_OBSERVATION_NOTE_LEN + 1}]

CreateForkArgsSmall ==
  [fork_key : ForkKeys, parent : {None}, label : {0, 1},
   metadata_uri : {1}, tags : {0}, is_root : {FALSE}, depth : {None}]

\* Observations at and around the bounds of lines_of_code, with
\* files_processed zero or valid.
ObservationArgsBounds ==
  [lines_of_code : {0, 1, MAX_LOC_PER_OBSERVATION,
                    MAX_LOC_PER_OBSERVATION + 1},
   files_processed : {0, 2}, modules_touched : {0}, revision : {7},
   note : {0}]

\* record_observation arguments around the bounds of files_processed,
\* modules_touched, revision and note.
ObservationArgsFields ==
  [lines_of_code : {1, MAX_LOC_PER_OBSERVATION + 1},
   files_processed : {0, MAX_FILES_PER_OBSERVATION,
                      MAX_FILES_PER_OBSERVATION + 1},
   modules_touched : {0, MAX_MODULES_PER_OBSERVATION + 1},
   revision : {MAX_REVISION_LEN, MAX_REVISION_LEN + 1},
   note : {0, MAX_OBSERVATION_NOTE_LEN + 1}]

\* A reconciliation that sets total_lines_of_code one below u64::MAX (an
\* accepted value: only u64::MAX itself is the sentinel).
MetricsArgsNearMax ==
  { MetricsArgs([i \in 1..Len(MetricsFields) |->
                   IF MetricsFields[i] = "total_lines_of_code"
                     THEN Some(U64_MAX - 1) ELSE None]) }

\* Forks at and around the bounds of label, metadata_uri and tags, with
\* every combination of is_root, depth and parent.
CreateForkArgsBounds ==
  [fork_key : ForkKeys, parent : Opt({"A"}),
   label : {0, 1, MAX_LABEL_LEN, MAX_LABEL_LEN + 1},
   metadata_uri : {0, 1, MAX_METADATA_URI_LEN + 1},
   tags : {0, MAX_TAGS_LEN + 1}, is_root : BOOLEAN,
   depth : Opt({0, 7, U16_MAX})]

\* Two fork keys, for the properties that relate one Fork to another.
ForkKeysTwo == {"F1", "F2"}

CreateForkArgsTwo ==
  [fork_key : ForkKeysTwo, parent : {None}, label : {1}, metadata_uri : {1},
   tags : {0}, is_root : {FALSE}, depth : {None}]

\* create_fork with every combination of parent and is_root: no parent, a
\* key that is no Fork ("A"), and the address of the Fork of key "F2", which
\* may or may not exist.
CreateForkArgsParent ==
  [fork_key : ForkKeysTwo, parent : Opt({"A", "F2"}), label : {1},
   metadata_uri : {1}, tags : {0}, is_root : BOOLEAN, depth : {None}]

UpdateForkStateArgs ==
  [fork_key : ForkKeysTwo, label : Opt({2}), metadata_uri : {None},
   tags : {None}, is_active : {None}]

----------------------------------------------------------------------------
(* Specifications *)

\* The three write instructions together, with the switches of their guards.
Next ==
  \/ ExecCreateFork(CreateForkArgsSmall)
  \/ RejectCreateFork(CreateForkArgsSmall)
  \/ ExecRecordObservation(ObservationArgsSmall)
  \/ ExecRecordMetrics(MetricsArgsUniform)
  \/ SetLifecyclePhase
  \/ SetConfigActive
  \/ UpdateRepoFlags
  \/ Return

Spec == Init /\ [][Next]_vars

\* record_metrics alone, over the richer argument records.
NextMetrics ==
  \/ ExecRecordMetrics(MetricsArgsSupplied)
  \/ SetLifecyclePhase
  \/ SetConfigActive
  \/ Return

SpecMetrics == Init /\ [][NextMetrics]_vars

\* record_observation over the bounds of its arguments, with the switches
\* of its guards and a reconciliation that brings a global counter next to
\* u64::MAX.
NextObs ==
  \/ ExecRecordObservation(ObservationArgsBounds)
  \/ ExecRecordMetrics(MetricsArgsNearMax)
  \/ SetLifecyclePhase
  \/ SetConfigActive
  \/ UpdateRepoFlags
  \/ Return

SpecObs == Init /\ [][NextObs]_vars

\* record_observation over the bounds of its other fields, with the switches
\* of its guards.
NextObsFields ==
  \/ ExecRecordObservation(ObservationArgsFields)
  \/ SetLifecyclePhase
  \/ SetConfigActive
  \/ UpdateRepoFlags
  \/ Return

SpecObsFields == Init /\ [][NextObsFields]_vars

\* create_fork over the bounds of its arguments, with the switches of its
\* guards.
NextFork ==
  \/ ExecCreateFork(CreateForkArgsBounds)
  \/ RejectCreateFork(CreateForkArgsSmall)
  \/ SetLifecyclePhase
  \/ SetConfigActive
  \/ Return

SpecFork == Init /\ [][NextFork]_vars

\* The deployment of Init with room for two Forks.
InitOwner ==
  /\ config = DeployedConfig
  /\ lifecycle = InitLifecycle
  /\ metrics = [InitMetrics EXCEPT !.updated_at = 1]
  /\ repo = InitRepo
  /\ forks = [k \in ForkKeysTwo |-> NoFork]
  /\ notes = <<>>
  /\ outcome = Idle

\* create_fork on two fork keys over parent and is_root.
NextParent ==
  \/ ExecCreateFork(CreateForkArgsParent)
  \/ RejectCreateFork(CreateForkArgsParent)
  \/ SetLifecyclePhase
  \/ SetConfigActive
  \/ Return

SpecParent == InitOwner /\ [][NextParent]_vars

\* create_fork and update_fork_state on two fork keys, by two signers.
NextOwner ==
  \/ ExecCreateFork(CreateForkArgsTwo)
  \/ RejectCreateFork(CreateForkArgsTwo)
  \/ ExecUpdateForkState(UpdateForkStateArgs)
  \/ SetLifecyclePhase
  \/ SetConfigActive
  \/ Return

SpecOwner == InitOwner /\ [][NextOwner]_vars

----------------------------------------------------------------------------
(* Properties of Config, checked under SpecConfig *)

Initialised == config.schema_version = CURRENT_SCHEMA_VERSION

\* The fee and module arguments of the call in outcome, as Options
\* (init always supplies both).
CallFee ==
  IF outcome.op = "init" THEN Some(outcome.fee_bps) ELSE outcome.maybe_fee_bps
CallMaxModules ==
  IF outcome.op = "init" THEN Some(outcome.max_modules_per_repo)
  ELSE outcome.maybe_max_modules_per_repo
IsConfigCall == outcome.op \in {"init", "apply_update"}

\* C2: once init has succeeded, and after any sequence of successful or
\* failed apply_update calls, fee_bps <= MAX_FEE_BPS and
\* max_modules_per_repo > 0.
C2_ConfigBounds ==
  Initialised =>
    /\ config.fee_bps <= MAX_FEE_BPS
    /\ config.max_modules_per_repo > 0

\* A failed apply_update has run on an initialised Config and has left the
\* fee it wrote before failing.
C2_Witness ==
  /\ Initialised
  /\ outcome.op = "apply_update"
  /\ outcome.err = "ValueOutOfRange"
  /\ config.fee_bps = MAX_FEE_BPS
  /\ outcome.pre.config.fee_bps = 0

\* C3 as stated: init and apply_update fail with InvalidFeeBps for every
\* fee_bps > 5000 and succeed for every fee_bps <= 5000.
C3_FeeDecidesAlone ==
  (IsConfigCall /\ IsSome(CallFee)) =>
    /\ Unwrap(CallFee) > MAX_FEE_BPS => outcome.err = "InvalidFeeBps"
    /\ Unwrap(CallFee) <= MAX_FEE_BPS => outcome.err = Ok

\* C3 amended: a fee_bps > 5000 fails with InvalidFeeBps; a fee_bps <= 5000
\* succeeds unless max_modules_per_repo is 0 (Some(0)), in which case the
\* call fails with ValueOutOfRange.
C3_FeeBound ==
  (IsConfigCall /\ IsSome(CallFee)) =>
    /\ Unwrap(CallFee) > MAX_FEE_BPS => outcome.err = "InvalidFeeBps"
    /\ Unwrap(CallFee) <= MAX_FEE_BPS =>
         outcome.err = IF CallMaxModules = Some(0) THEN "ValueOutOfRange"
                       ELSE Ok

\* apply_update has accepted the largest allowed fee.
C3_Witness ==
  /\ outcome.op = "apply_update"
  /\ outcome.maybe_fee_bps = Some(MAX_FEE_BPS)
  /\ outcome.err = Ok
  /\ outcome.pre.config.fee_bps # MAX_FEE_BPS
  /\ config.fee_bps = MAX_FEE_BPS

\* C4 as stated: a call with max_modules_per_repo = 0 fails with
\* ValueOutOfRange whatever the other arguments are.
C4_ZeroModulesAlwaysOutOfRange ==
  (IsConfigCall /\ CallMaxModules = Some(0)) => outcome.err = "ValueOutOfRange"

\* C4 amended: a call with max_modules_per_repo = 0 always fails; the error
\* is ValueOutOfRange when the fee argument is absent or <= 5000, and
\* InvalidFeeBps when the fee argument is > 5000 (the fee is validated
\* first).
C4_ZeroModulesRejected ==
  (IsConfigCall /\ CallMaxModules = Some(0)) =>
    outcome.err = IF IsSome(CallFee) /\ Unwrap(CallFee) > MAX_FEE_BPS
                    THEN "InvalidFeeBps" ELSE "ValueOutOfRange"

\* apply_update was called with Some(0) modules and no fee, and was rejected.
C4_Witness ==
  /\ outcome.op = "apply_update"
  /\ outcome.maybe_max_modules_per_repo = Some(0)
  /\ outcome.maybe_fee_bps = None
  /\ outcome.err = "ValueOutOfRange"

\* C5: a rejected apply_update leaves every Config field as it was before
\* the call.
C5_RejectedUpdateUntouched ==
  (outcome.op = "apply_update" /\ outcome.err # Ok) =>
    config = outcome.pre.config

\* C6: a successful apply_update is a sparse patch: each of fee_bps,
\* max_modules_per_repo, is_active and policy_ref is the supplied value when
\* its argument is Some and its prior value when it is None; updated_at is
\* the clock timestamp; no other field changes.
C6_SparsePatch ==
  (outcome.op = "apply_update" /\ outcome.err = Ok) =>
    LET old == outcome.pre.config IN
    /\ config.fee_bps = IF IsSome(outcome.maybe_fee_bps)
                          THEN Unwrap(outcome.maybe_fee_bps) ELSE old.fee_bps
    /\ config.max_modules_per_repo =
         IF IsSome(outcome.maybe_max_modules_per_repo)
           THEN Unwrap(outcome.maybe_max_modules_per_repo)
           ELSE old.max_modules_per_repo
    /\ config.is_active = IF IsSome(outcome.maybe_is_active)
                            THEN Unwrap(outcome.maybe_is_active)
                            ELSE old.is_active
    /\ config.policy_ref = IF IsSome(outcome.maybe_policy_ref)
                             THEN Unwrap(outcome.maybe_policy_ref)
                             ELSE old.policy_ref
    /\ config.updated_at = outcome.now
    /\ (/\ outcome.maybe_fee_bps = None
        /\ outcome.maybe_max_modules_per_repo = None
        /\ outcome.maybe_is_active = None
        /\ outcome.maybe_policy_ref = None)
       => config = [old EXCEPT !.updated_at = outcome.now]

\* apply_update(None, None, None, None) has succeeded on an active Config
\* and has moved updated_at only.
C6_Witness ==
  /\ outcome.op = "apply_update"
  /\ outcome.err = Ok
  /\ outcome.maybe_fee_bps = None
  /\ outcome.maybe_max_modules_per_repo = None
  /\ outcome.maybe_is_active = None
  /\ outcome.maybe_policy_ref = None
  /\ outcome.pre.config.is_active
  /\ config.updated_at # outcome.pre.config.updated_at

----------------------------------------------------------------------------
(* Properties of the write instructions *)

WriteOps == {"create_fork", "record_observation", "record_metrics"}
IsWriteCall == outcome.op \in WriteOps

\* The handler left every account as it found it, and the ledger holds the
\* accounts as they were before the call.
NothingWritten == outcome.mem = outcome.pre /\ Accounts = outcome.pre

\* C1: a write instruction invoked while Lifecycle::assert_writes_allowed
\* fails is rejected with the lifecycle error at the lifecycle guard, and
\* Config, Lifecycle, Metrics, Repo and Fork are as before the call,
\* whatever the signer and the arguments.
C1_FrozenRejectsBeforeMutation ==
  (IsWriteCall /\ assert_writes_allowed(outcome.pre.lifecycle) # Ok) =>
    /\ outcome.err = assert_writes_allowed(outcome.pre.lifecycle)
    /\ outcome.at = "lifecycle"
    /\ outcome.event = None
    /\ NothingWritten

\* The admin has called record_metrics with accepted values while writes
\* were frozen (the call that would otherwise overwrite the counters).
C1_Witness ==
  /\ outcome.op = "record_metrics"
  /\ outcome.pre.lifecycle.phase = "frozen"
  /\ outcome.signer = outcome.pre.config.admin
  /\ outcome.pre.config.is_active
  /\ outcome.args.total_repos = Some(MetricVal)
  /\ outcome.pre.metrics.total_repos # MetricVal
  /\ outcome.err # Ok

\* The guards of the call in outcome that would fail on the accounts it ran
\* on, each evaluated on its own.
FailingGuards ==
  LET pre == outcome.pre
      op == outcome.op IN
  {g \in {"lifecycle", "config_active", "admin", "repo_active",
          "repo_observable", "validation"} :
     \/ g = "lifecycle" /\ assert_writes_allowed(pre.lifecycle) # Ok
     \/ g = "config_active" /\ assert_active(pre.config) # Ok
     \/ g = "admin" /\ op = "record_metrics"
          /\ assert_admin(pre.config, outcome.signer) # Ok
     \/ g = "repo_active" /\ op = "record_observation"
          /\ repo_assert_active(pre.repo) # Ok
     \/ g = "repo_observable" /\ op = "record_observation"
          /\ repo_assert_observable(pre.repo) # Ok
     \/ g = "validation"
          /\ \/ op = "record_metrics" /\ RecordMetricsValidate(outcome.args) # Ok
             \/ op = "record_observation"
                  /\ RecordObservationValidate(outcome.args) # Ok
             \/ op = "create_fork" /\ CreateForkValidate(outcome.args) # Ok}

\* The error a guard returns for the call in outcome.
GuardError(g) ==
  CASE g = "lifecycle" -> "InvalidLifecycleState"
    [] g = "config_active" -> "InvalidLifecycleState"
    [] g = "admin" -> "InvalidAdmin"
    [] g = "repo_active" -> "RepoInactive"
    [] g = "repo_observable" -> "ObservationNotAllowed"
    [] g = "validation" ->
         IF outcome.op = "record_metrics"
           THEN RecordMetricsValidate(outcome.args)
         ELSE IF outcome.op = "record_observation"
           THEN RecordObservationValidate(outcome.args)
         ELSE CreateForkValidate(outcome.args)

\* The first guard of the sequence order that is in FailingGuards.
FirstFailing(order) ==
  order[CHOOSE i \in 1..Len(order) :
          /\ order[i] \in FailingGuards
          /\ \A j \in 1..(i - 1) : order[j] \notin FailingGuards]

\* The order C7 states for all three instructions.
StatedOrder ==
  <<"lifecycle", "config_active", "admin", "repo_active", "repo_observable",
    "validation">>

\* The order of record_metrics in the code.
MetricsOrder == <<"lifecycle", "admin", "config_active", "validation">>

\* C7 as stated: in the three instructions the guards run as lifecycle,
\* Config::assert_active, admin or entity guard, field validation; when more
\* than one guard would fail the error is that of the first in this order.
C7_StatedGuardOrder ==
  (IsWriteCall /\ Cardinality(FailingGuards) > 1) =>
    /\ outcome.at = FirstFailing(StatedOrder)
    /\ outcome.err = GuardError(FirstFailing(StatedOrder))

\* C7 amended: create_fork and record_observation run lifecycle,
\* Config::assert_active, Repo::assert_active, Repo::assert_observable, field
\* validation; record_metrics runs lifecycle, Config::assert_admin,
\* Config::assert_active, field validation.  When more than one guard would
\* fail the error is that of the first failing guard in the instruction's
\* own order.
C7_GuardOrder ==
  (IsWriteCall /\ Cardinality(FailingGuards) > 1) =>
    LET order == IF outcome.op = "record_metrics" THEN MetricsOrder
                 ELSE StatedOrder IN
    /\ outcome.at = FirstFailing(order)
    /\ outcome.err = GuardError(FirstFailing(order))

\* A signer other than the admin has called record_metrics with a sentinel
\* value while the Config was inactive and the lifecycle allowed writes; the
\* call was rejected at the admin guard.
C7_Witness ==
  /\ outcome.op = "record_metrics"
  /\ FailingGuards = {"admin", "config_active", "validation"}
  /\ outcome.at = "admin"
  /\ outcome.err = "InvalidAdmin"

----------------------------------------------------------------------------
(* Properties of record_metrics, checked under SpecMetrics *)

IsMetricsCall == outcome.op = "record_metrics"

\* The six counters and updated_at are as before the call, in the handler's
\* memory and on the ledger.
MetricsUntouched ==
  outcome.mem.metrics = outcome.pre.metrics /\ metrics = outcome.pre.metrics

\* C8 as stated: record_metrics by a signer other than config.admin fails
\* with InvalidAdmin and leaves the six counters and updated_at unchanged,
\* for every argument record.
C8_NonAdminGetsInvalidAdmin ==
  (IsMetricsCall /\ outcome.signer # outcome.pre.config.admin) =>
    /\ outcome.err = "InvalidAdmin"
    /\ MetricsUntouched

\* C8 amended: record_metrics by a signer other than config.admin fails and
\* leaves the six counters and updated_at unchanged, for every argument
\* record; the error is InvalidAdmin whenever the lifecycle allows writes,
\* and the lifecycle error otherwise (the lifecycle guard runs first).
C8_OnlyAdminReconciles ==
  (IsMetricsCall /\ outcome.signer # outcome.pre.config.admin) =>
    /\ outcome.err =
         IF assert_writes_allowed(outcome.pre.lifecycle) # Ok
           THEN assert_writes_allowed(outcome.pre.lifecycle)
           ELSE "InvalidAdmin"
    /\ MetricsUntouched

\* A signer other than the admin has called record_metrics with accepted
\* values on an active deployment and was turned away.
C8_Witness ==
  /\ IsMetricsCall
  /\ outcome.signer # outcome.pre.config.admin
  /\ outcome.pre.lifecycle.phase = "active"
  /\ outcome.pre.config.is_active
  /\ outcome.args.total_forks = Some(MetricVal)
  /\ outcome.pre.metrics.total_forks # MetricVal
  /\ outcome.err = "InvalidAdmin"

HasSentinel(args) ==
  \E i \in 1..Len(MetricsFields) : args[MetricsFields[i]] = Some(U64_MAX)

\* C9 as stated: record_metrics with any field equal to Some(u64::MAX)
\* fails with ValueOutOfRange and leaves all six counters unchanged.
C9_SentinelGetsValueOutOfRange ==
  (IsMetricsCall /\ HasSentinel(outcome.args)) =>
    /\ outcome.err = "ValueOutOfRange"
    /\ MetricsUntouched

\* C9 amended: record_metrics with any field equal to Some(u64::MAX) fails
\* and leaves all six counters unchanged, the counters whose arguments were
\* valid Some values included; the error is ValueOutOfRange whenever the
\* call passes the lifecycle, admin and config guards, which run first.
C9_SentinelAllOrNothing ==
  (IsMetricsCall /\ HasSentinel(outcome.args)) =>
    /\ outcome.err # Ok
    /\ RecordMetricsGuards(outcome.pre, outcome.signer).err = Ok
         => outcome.err = "ValueOutOfRange"
    /\ MetricsUntouched

\* The admin has supplied the sentinel for one counter together with an
\* accepted new value for another, and the call was rejected.
C9_Witness ==
  /\ IsMetricsCall
  /\ outcome.args.total_files_processed = Some(U64_MAX)
  /\ outcome.args.total_repos = Some(MetricVal)
  /\ outcome.pre.metrics.total_repos # MetricVal
  /\ outcome.err = "ValueOutOfRange"

\* C10: a successful record_metrics overwrites: each counter is the supplied
\* value when its argument is Some and its prior value when it is None,
\* updated_at is the clock timestamp, and Config, Lifecycle, Repo and Fork
\* are unchanged.
C10_Overwrite ==
  (IsMetricsCall /\ outcome.err = Ok) =>
    /\ \A i \in 1..Len(MetricsFields) :
         LET f == MetricsFields[i] IN
         metrics[f] = IF IsSome(outcome.args[f]) THEN Unwrap(outcome.args[f])
                      ELSE outcome.pre.metrics[f]
    /\ metrics.updated_at = outcome.now
    /\ config = outcome.pre.config
    /\ lifecycle = outcome.pre.lifecycle
    /\ repo = outcome.pre.repo
    /\ forks = outcome.pre.forks

\* A counter that already held a value was reconciled to the same value
\* while another, non-zero counter was left out of the call.
C10_Witness ==
  /\ IsMetricsCall
  /\ outcome.err = Ok
  /\ outcome.args.total_repos = Some(MetricVal)
  /\ outcome.pre.metrics.total_repos = MetricVal
  /\ outcome.args.total_modules = None
  /\ outcome.args.total_forks = None
  /\ outcome.pre.metrics.total_forks = MetricVal
  /\ outcome.now # outcome.pre.metrics.updated_at

\* The same record_metrics call made again on the accounts as they are now.
SecondRecordMetrics ==
  RecordMetricsHandle(Accounts, outcome.signer, outcome.args, outcome.now)

\* C11: record_metrics is idempotent: a second call with the same argument
\* record and the same clock timestamp, made right after the first, ends as
\* the first did and leaves Metrics as the first call left it.
C11_Idempotent ==
  IsMetricsCall =>
    /\ SecondRecordMetrics.err = outcome.err
    /\ SecondRecordMetrics.mem.metrics = metrics

\* A successful call has changed a counter to a supplied value, left
\* another counter that is not zero out, and moved updated_at.
C11_Witness ==
  /\ IsMetricsCall
  /\ outcome.err = Ok
  /\ outcome.args.total_repos = Some(MetricVal)
  /\ outcome.pre.metrics.total_repos # MetricVal
  /\ outcome.args.total_forks = None
  /\ metrics.total_forks = MetricVal
  /\ outcome.now # outcome.pre.metrics.updated_at
  /\ SecondRecordMetrics.err = Ok

----------------------------------------------------------------------------
(* Properties of record_observation, checked under SpecObs *)

IsObservationCall == outcome.op = "record_observation"

\* The guards of the call in outcome, on the accounts it ran on.
ObservationGuards == RecordObservationGuards(outcome.pre)

\* The repository of the call in outcome had reached its observation cap.
CapReached == outcome.pre.repo.observation_count >= ObservationCap

\* Adding the values of the call in outcome would take a Repo or Metrics
\* counter past u64::MAX.
WouldOverflow ==
  LET a == outcome.args
      r == outcome.pre.repo
      m == outcome.pre.metrics IN
  \/ r.observation_count > U64_MAX - 1
  \/ r.total_lines_of_code > U64_MAX - a.lines_of_code
  \/ r.total_files_processed > U64_MAX - a.files_processed
  \/ r.total_modules_touched > U64_MAX - a.modules_touched
  \/ m.total_observations > U64_MAX - 1
  \/ m.total_lines_of_code > U64_MAX - a.lines_of_code
  \/ m.total_files_processed > U64_MAX - a.files_processed

\* Every field of the call in outcome other than lines_of_code is within
\* its bounds.
OtherFieldsValid ==
  LET a == outcome.args IN
  /\ a.files_processed > 0
  /\ a.files_processed <= MAX_FILES_PER_OBSERVATION
  /\ a.modules_touched <= MAX_MODULES_PER_OBSERVATION
  /\ a.revision <= MAX_REVISION_LEN
  /\ a.note <= MAX_OBSERVATION_NOTE_LEN

\* C12 as stated: record_observation with lines_of_code = 0 fails with
\* ValueOutOfRange, with lines_of_code above MAX_LOC_PER_OBSERVATION fails
\* with ObservationDataTooLarge, and with lines_of_code equal to
\* MAX_LOC_PER_OBSERVATION and all other guards and fields valid succeeds.
C12_LocDecidesAlone ==
  IsObservationCall =>
    /\ outcome.args.lines_of_code = 0 => outcome.err = "ValueOutOfRange"
    /\ outcome.args.lines_of_code > MAX_LOC_PER_OBSERVATION
         => outcome.err = "ObservationDataTooLarge"
    /\ ( /\ outcome.args.lines_of_code = MAX_LOC_PER_OBSERVATION
         /\ ObservationGuards.err = Ok
         /\ OtherFieldsValid )
         => outcome.err = Ok

\* C12 amended: a record_observation that passes the lifecycle, config and
\* repo guards fails with ValueOutOfRange when lines_of_code = 0 and with
\* ObservationDataTooLarge when lines_of_code is above
\* MAX_LOC_PER_OBSERVATION; one that fails a guard returns the guard's
\* error.  With lines_of_code equal to MAX_LOC_PER_OBSERVATION and all guards
\* and fields valid it succeeds unless the repository's observation cap is
\* reached or a Repo or Metrics counter would overflow.
C12_LocBounds ==
  IsObservationCall =>
    /\ ObservationGuards.err # Ok => outcome.err = ObservationGuards.err
    /\ ObservationGuards.err = Ok =>
         /\ outcome.args.lines_of_code = 0
              => outcome.err = "ValueOutOfRange"
         /\ outcome.args.lines_of_code > MAX_LOC_PER_OBSERVATION
              => outcome.err = "ObservationDataTooLarge"
         /\ ( /\ outcome.args.lines_of_code = MAX_LOC_PER_OBSERVATION
              /\ OtherFieldsValid
              /\ ~CapReached
              /\ ~WouldOverflow )
              => outcome.err = Ok

\* An observation of exactly MAX_LOC_PER_OBSERVATION lines was recorded.
C12_Witness ==
  /\ IsObservationCall
  /\ outcome.args.lines_of_code = MAX_LOC_PER_OBSERVATION
  /\ outcome.err = Ok
  /\ repo.total_lines_of_code =
       outcome.pre.repo.total_lines_of_code + MAX_LOC_PER_OBSERVATION

\* Repo and Metrics are as before the call, in the handler's memory and on
\* the ledger.
RepoAndMetricsUntouched ==
  /\ outcome.mem.metrics = outcome.pre.metrics
  /\ outcome.mem.repo = outcome.pre.repo
  /\ metrics = outcome.pre.metrics
  /\ repo = outcome.pre.repo

\* C13 as stated: record_observation on a repo whose observation flag is
\* false fails with ObservationNotAllowed and mutates neither Metrics nor the
\* Repo, whatever the other repo flags and the arguments are.
C13_UnobservableGetsNotAllowed ==
  (IsObservationCall /\ ~outcome.pre.repo.allow_observation) =>
    /\ outcome.err = "ObservationNotAllowed"
    /\ RepoAndMetricsUntouched

\* C13 amended: record_observation on a repo whose observation flag is
\* false fails and mutates neither Metrics nor the Repo, whatever the
\* arguments are; the error is ObservationNotAllowed when the lifecycle
\* allows writes and the Config and the Repo are active, and otherwise the
\* error of the first of those three guards that fails (RepoInactive for an
\* inactive repo).
C13_UnobservableRejected ==
  (IsObservationCall /\ ~outcome.pre.repo.allow_observation) =>
    /\ outcome.err =
         IF assert_writes_allowed(outcome.pre.lifecycle) # Ok
           THEN assert_writes_allowed(outcome.pre.lifecycle)
         ELSE IF assert_active(outcome.pre.config) # Ok
           THEN assert_active(outcome.pre.config)
         ELSE IF ~outcome.pre.repo.is_active THEN "RepoInactive"
         ELSE "ObservationNotAllowed"
    /\ RepoAndMetricsUntouched

\* An observation with valid fields was sent for an active repository that
\* does not allow observation, on an active deployment, and was turned away.
C13_Witness ==
  /\ IsObservationCall
  /\ ~outcome.pre.repo.allow_observation
  /\ outcome.pre.repo.is_active
  /\ outcome.pre.lifecycle.phase = "active"
  /\ outcome.pre.config.is_active
  /\ outcome.args.lines_of_code = 1
  /\ OtherFieldsValid
  /\ ~CapReached
  /\ outcome.err = "ObservationNotAllowed"

\* The call in outcome passed the guards and the validation, its per-repo
\* update succeeded, and adding its values takes a Metrics counter past
\* u64::MAX.
AggregationOverflows ==
  LET a == outcome.args
      m == outcome.pre.metrics IN
  /\ IsObservationCall
  /\ ObservationGuards.err = Ok
  /\ RecordObservationValidate(a) = Ok
  /\ repo_record_observation(outcome.pre.repo, a.lines_of_code,
                             a.files_processed, a.modules_touched,
                             a.revision, a.note, outcome.signer,
                             outcome.now).err = Ok
  /\ \/ m.total_observations > U64_MAX - 1
     \/ m.total_lines_of_code > U64_MAX - a.lines_of_code
     \/ m.total_files_processed > U64_MAX - a.files_processed

C15_ObservationAggregates ==
  (IsObservationCall /\ outcome.err = Ok) =>
    LET m == outcome.pre.metrics IN
    /\ metrics.total_observations = m.total_observations + 1
    /\ metrics.total_lines_of_code
         = m.total_lines_of_code + outcome.args.lines_of_code
    /\ metrics.total_files_processed
         = m.total_files_processed + outcome.args.files_processed
    /\ metrics.total_repos = m.total_repos
    /\ metrics.total_modules = m.total_modules
    /\ metrics.total_forks = m.total_forks
    /\ metrics.updated_at = outcome.now

\* A second observation was recorded at a later clock value, on counters
\* that the first one had already raised.
C15_Witness ==
  /\ IsObservationCall
  /\ outcome.err = Ok
  /\ outcome.pre.metrics.total_observations = 1
  /\ outcome.pre.metrics.total_lines_of_code = MAX_LOC_PER_OBSERVATION
  /\ outcome.args.lines_of_code = 1
  /\ outcome.args.files_processed = 2
  /\ outcome.now # outcome.pre.metrics.updated_at
  /\ metrics.total_lines_of_code = MAX_LOC_PER_OBSERVATION + 1

----------------------------------------------------------------------------
(* Properties of Metrics across instructions, checked under Spec *)

\* C16: along any sequence of instructions without a record_metrics call,
\* each of the six Metrics counters is non-decreasing: every step other than
\* a record_metrics call, a successful or failed record_observation or
\* create_fork included, leaves each counter at or above its value.
C16_CountersNeverDecrease ==
  [][outcome'.op # "record_metrics" =>
       \A i \in 1..Len(MetricsFields) :
         metrics'[MetricsFields[i]] >= metrics[MetricsFields[i]]]_vars

\* An observation was recorded on counters that a reconciliation had set,
\* and raised the counters it adds to.
C16_Witness ==
  /\ IsObservationCall
  /\ outcome.err = Ok
  /\ outcome.pre.metrics.total_observations = MetricVal
  /\ outcome.pre.metrics.total_repos = MetricVal
  /\ metrics.total_observations = MetricVal + 1
  /\ metrics.total_lines_of_code > outcome.pre.metrics.total_lines_of_code
  /\ metrics.total_repos = MetricVal

----------------------------------------------------------------------------
(* Properties of create_fork, checked under SpecFork *)

IsCreateForkCall == outcome.op = "create_fork"

\* The Fork account at the fork_key of the call in outcome.
CalledFork == forks[outcome.args.fork_key]

\* C17: fork depth defaulting: with depth = None the stored depth is 0 when
\* is_root is true and 1 when it is false; with depth = Some(d) the stored
\* depth is d, whatever is_root and the parent are.
C17_DepthDefault ==
  (IsCreateForkCall /\ outcome.err = Ok) =>
    /\ CalledFork.exists
    /\ (outcome.args.depth = None /\ outcome.args.is_root)
         => CalledFork.depth = 0
    /\ (outcome.args.depth = None /\ ~outcome.args.is_root)
         => CalledFork.depth = 1
    /\ \A d \in 0..U16_MAX :
         outcome.args.depth = Some(d) => CalledFork.depth = d
    /\ CalledFork.is_root = outcome.args.is_root
    /\ Unwrap(outcome.event).depth = CalledFork.depth

\* A root fork that names a parent was created at the largest explicit
\* depth.
C17_Witness ==
  /\ IsCreateForkCall
  /\ outcome.err = Ok
  /\ outcome.args.is_root
  /\ outcome.args.parent = Some("A")
  /\ outcome.args.depth = Some(U16_MAX)
  /\ CalledFork.depth = U16_MAX

LabelValid == outcome.args.label \in 1..MAX_LABEL_LEN
MetadataUriValid == outcome.args.metadata_uri \in 1..MAX_METADATA_URI_LEN
TagsValid == outcome.args.tags <= MAX_TAGS_LEN

\* No Fork was created by the call in outcome.
NoForkCreated == CalledFork = NoFork /\ forks = outcome.pre.forks

\* C18 as stated: in create_fork an empty label or an empty metadata_uri
\* fails with StringEmpty; a label, metadata_uri or tags longer than its
\* maximum fails with StringTooLong; a label of exactly MAX_LABEL_LEN bytes
\* with a valid metadata_uri and empty tags succeeds; on every such failure
\* no Fork is created.
C18_StringsDecideAlone ==
  IsCreateForkCall =>
    /\ (outcome.args.label = 0 \/ outcome.args.metadata_uri = 0)
         => outcome.err = "StringEmpty"
    /\ ( \/ outcome.args.label > MAX_LABEL_LEN
         \/ outcome.args.metadata_uri > MAX_METADATA_URI_LEN
         \/ outcome.args.tags > MAX_TAGS_LEN )
         => outcome.err = "StringTooLong"
    /\ ( /\ outcome.args.label = MAX_LABEL_LEN
         /\ MetadataUriValid
         /\ outcome.args.tags = 0 )
         => outcome.err = Ok
    /\ outcome.err # Ok => NoForkCreated

\* C18 amended: a create_fork that passes the lifecycle and Config guards
\* checks label empty (StringEmpty), label too long (StringTooLong),
\* metadata_uri empty (StringEmpty), metadata_uri too long (StringTooLong),
\* tags too long (StringTooLong) in this order and fails with the error of
\* the first check that fails; one that fails a guard returns the guard's
\* error.  A label of exactly MAX_LABEL_LEN bytes with a valid metadata_uri
\* and empty tags succeeds when the guards pass.  On every failure no Fork
\* is created.
C18_StringValidation ==
  IsCreateForkCall =>
    /\ CreateForkGuards(outcome.pre).err # Ok
         => outcome.err = CreateForkGuards(outcome.pre).err
    /\ CreateForkGuards(outcome.pre).err = Ok =>
         /\ outcome.args.label = 0 => outcome.err = "StringEmpty"
         /\ outcome.args.label > MAX_LABEL_LEN
              => outcome.err = "StringTooLong"
         /\ (LabelValid /\ outcome.args.metadata_uri = 0)
              => outcome.err = "StringEmpty"
         /\ (LabelValid /\ outcome.args.metadata_uri > MAX_METADATA_URI_LEN)
              => outcome.err = "StringTooLong"
         /\ (LabelValid /\ MetadataUriValid /\ ~TagsValid)
              => outcome.err = "StringTooLong"
         /\ ( /\ outcome.args.label = MAX_LABEL_LEN
              /\ MetadataUriValid
              /\ outcome.args.tags = 0 )
              => outcome.err = Ok
    /\ outcome.err # Ok => NoForkCreated

\* A fork whose label is exactly MAX_LABEL_LEN bytes long was created.
C18_Witness ==
  /\ IsCreateForkCall
  /\ outcome.args.label = MAX_LABEL_LEN
  /\ outcome.args.tags = 0
  /\ outcome.err = Ok
  /\ CalledFork.exists
  /\ CalledFork.label = MAX_LABEL_LEN

----------------------------------------------------------------------------
(* Properties of Fork ownership and creation, checked under SpecOwner *)

\* This step is an update_fork_state call whose signer is not the owner of
\* the Fork it names.
NonOwnerUpdate ==
  /\ outcome'.op = "update_fork_state"
  /\ outcome'.signer # forks[outcome'.args.fork_key].owner

\* This step creates a Fork whose owner is the owner signer of the call.
CreatedForOwnerSigner ==
  (outcome'.op = "create_fork" /\ outcome'.err = Ok) =>
    /\ forks[outcome'.args.fork_key] = NoFork
    /\ forks'[outcome'.args.fork_key].exists
    /\ forks'[outcome'.args.fork_key].owner = outcome'.signer

\* This step leaves every Fork that exists in existence and with its owner.
OwnersKept ==
  \A k \in DOMAIN forks :
    forks[k] # NoFork => (forks'[k] # NoFork /\ forks'[k].owner = forks[k].owner)

C20_CreateOnce ==
  [][( /\ outcome'.op \in {"create_fork", "create_fork_rejected"}
       /\ forks[outcome'.args.fork_key] # NoFork ) =>
        /\ outcome'.err # Ok
        /\ forks' = forks]_vars

\* A create_fork by another signer for a fork_key whose Fork exists and was
\* since updated by its owner has failed, and the Fork is as it was.
C20_Witness ==
  /\ outcome.op = "create_fork_rejected"
  /\ outcome.err # Ok
  /\ outcome.pre.forks[outcome.args.fork_key].exists
  /\ outcome.pre.forks[outcome.args.fork_key].owner # outcome.signer
  /\ outcome.pre.forks[outcome.args.fork_key].label # outcome.args.label
  /\ outcome.pre.forks[outcome.args.fork_key].created_at # outcome.now
  /\ forks = outcome.pre.forks

----------------------------------------------------------------------------
(* Properties of the events, checked under Spec *)

\* The event of the call in outcome.
Emitted == Unwrap(outcome.event)

\* C21: each successful create_fork, record_observation and record_metrics
\* emits exactly one event (ForkCreated, ObservationRecorded,
\* MetricsReconciled) whose fields equal the account state after the
\* mutation, and a failed instruction emits no event.
C21_EventsMirrorState ==
  /\ (outcome.op # "idle" /\ outcome.err # Ok) => outcome.event = None
  /\ (IsWriteCall /\ outcome.err = Ok) => IsSome(outcome.event)
  /\ (IsMetricsCall /\ outcome.err = Ok) =>
       /\ Emitted.name = "MetricsReconciled"
       /\ Emitted.admin = config.admin
       /\ \A i \in 1..Len(MetricsFields) :
            Emitted[MetricsFields[i]] = metrics[MetricsFields[i]]
       /\ Emitted.updated_at = metrics.updated_at
  /\ (IsObservationCall /\ outcome.err = Ok) =>
       /\ Emitted.name = "ObservationRecorded"
       /\ Emitted.observer = repo.last_observer
       /\ Emitted.revision = repo.last_revision
       /\ Emitted.note = repo.last_note
       /\ Emitted.observed_at = repo.last_observed_at
       /\ Emitted.lines_of_code = repo.total_lines_of_code
                                    - outcome.pre.repo.total_lines_of_code
       /\ Emitted.files_processed = repo.total_files_processed
                                      - outcome.pre.repo.total_files_processed
       /\ Emitted.modules_touched = repo.total_modules_touched
                                      - outcome.pre.repo.total_modules_touched
  /\ (IsCreateForkCall /\ outcome.err = Ok) =>
       /\ Emitted.name = "ForkCreated"
       /\ Emitted.fork = CalledFork.fork_key
       /\ Emitted.owner = CalledFork.owner
       /\ Emitted.parent = CalledFork.parent
       /\ Emitted.is_root = CalledFork.is_root
       /\ Emitted.depth = CalledFork.depth
       /\ Emitted.created_at = CalledFork.created_at

\* A reconciliation that supplied no value has succeeded on counters that
\* differ from one another, and its event carries them.
C21_Witness ==
  /\ IsMetricsCall
  /\ outcome.err = Ok
  /\ metrics.total_observations # metrics.total_forks
  /\ metrics.total_forks # 0
  /\ Emitted.total_observations = metrics.total_observations
  /\ Emitted.updated_at = outcome.now

----------------------------------------------------------------------------
(* The Config switch, checked under Spec *)

\* The call in outcome was made while Config.is_active was false.
CalledWhileInactive ==
  /\ outcome.op \in WriteOps \cup {"create_fork_rejected"}
  /\ ~outcome.pre.config.is_active

\* C22: while Config.is_active is false every call of create_fork,
\* record_observation and record_metrics fails, whatever the lifecycle, the
\* signer and the arguments are, and changes no Fork, Repo or Metrics state;
\* a call by the admin and every create_fork and record_observation call
\* fails with InvalidLifecycleState.
C22_InactiveConfigBlocksWrites ==
  CalledWhileInactive =>
    /\ outcome.err # Ok
    /\ forks = outcome.pre.forks
    /\ repo = outcome.pre.repo
    /\ metrics = outcome.pre.metrics
    /\ (IsWriteCall /\ (outcome.signer = outcome.pre.config.admin
                         \/ outcome.op # "record_metrics"))
         => outcome.err = "InvalidLifecycleState"

\* The admin reconciles with valid arguments while the lifecycle allows
\* writes and only the Config switch is off.
C22_Witness ==
  /\ CalledWhileInactive
  /\ IsMetricsCall
  /\ outcome.pre.lifecycle.phase = "active"
  /\ outcome.signer = outcome.pre.config.admin
  /\ ~HasSentinel(outcome.args)
  /\ outcome.args.total_repos # None
  /\ outcome.err = "InvalidLifecycleState"
  /\ outcome.at = "config_active"

----------------------------------------------------------------------------
(* The other fields of record_observation, checked under SpecObsFields *)

FilesValid ==
  /\ outcome.args.files_processed > 0
  /\ outcome.args.files_processed <= MAX_FILES_PER_OBSERVATION

ModulesValid == outcome.args.modules_touched <= MAX_MODULES_PER_OBSERVATION

LocValid ==
  /\ outcome.args.lines_of_code > 0
  /\ outcome.args.lines_of_code <= MAX_LOC_PER_OBSERVATION

StringsTooLong ==
  \/ outcome.args.revision > MAX_REVISION_LEN
  \/ outcome.args.note > MAX_OBSERVATION_NOTE_LEN

\* The call in outcome breaks one of the bounds on files_processed,
\* modules_touched, revision or note.
BreaksFieldBound == ~FilesValid \/ ~ModulesValid \/ StringsTooLong

\* C23 as stated: in record_observation files_processed = 0 fails with
\* ValueOutOfRange and files_processed above MAX_FILES_PER_OBSERVATION with
\* ObservationDataTooLarge; modules_touched = 0 is accepted and
\* modules_touched above its maximum fails with ObservationDataTooLarge; a
\* revision or note longer than its maximum fails with StringTooLong; each
\* of these failures leaves Repo and Metrics unmutated.
C23_FieldsDecideAlone ==
  IsObservationCall =>
    /\ outcome.args.files_processed = 0 => outcome.err = "ValueOutOfRange"
    /\ outcome.args.files_processed > MAX_FILES_PER_OBSERVATION
         => outcome.err = "ObservationDataTooLarge"
    /\ ~ModulesValid => outcome.err = "ObservationDataTooLarge"
    /\ StringsTooLong => outcome.err = "StringTooLong"
    /\ BreaksFieldBound => (outcome.err # Ok /\ RepoAndMetricsUntouched)

\* C23 amended: the checks run in the order lifecycle/Config/Repo guards,
\* lines_of_code, files_processed, modules_touched, revision, note, and a
\* call returns the error of the first check it fails: each stated code is
\* returned when every earlier check passes.  modules_touched = 0 is not
\* rejected by validation.  Every call that breaks one of these bounds fails
\* and leaves Repo and Metrics unmutated.
C23_FieldBounds ==
  IsObservationCall =>
    /\ ObservationGuards.err # Ok => outcome.err = ObservationGuards.err
    /\ (ObservationGuards.err = Ok /\ LocValid) =>
         /\ outcome.args.files_processed = 0
              => outcome.err = "ValueOutOfRange"
         /\ outcome.args.files_processed > MAX_FILES_PER_OBSERVATION
              => outcome.err = "ObservationDataTooLarge"
         /\ (FilesValid /\ ~ModulesValid)
              => outcome.err = "ObservationDataTooLarge"
         /\ (FilesValid /\ ModulesValid /\ StringsTooLong)
              => outcome.err = "StringTooLong"
         /\ ( /\ outcome.args.modules_touched = 0
              /\ ~BreaksFieldBound
              /\ ~CapReached
              /\ ~WouldOverflow )
              => outcome.err = Ok
    /\ BreaksFieldBound => (outcome.err # Ok /\ RepoAndMetricsUntouched)

\* With every guard passed, an over-long note alone was rejected after an
\* observation with modules_touched = 0 and files_processed at its maximum
\* had been recorded.
C23_Witness ==
  /\ IsObservationCall
  /\ ObservationGuards.err = Ok
  /\ LocValid /\ FilesValid /\ ModulesValid
  /\ outcome.args.revision = MAX_REVISION_LEN
  /\ outcome.args.note > MAX_OBSERVATION_NOTE_LEN
  /\ outcome.err = "StringTooLong"
  /\ outcome.pre.repo.observation_count = 1
  /\ outcome.pre.repo.total_files_processed = MAX_FILES_PER_OBSERVATION
  /\ outcome.pre.repo.total_modules_touched = 0
  /\ repo = outcome.pre.repo

----------------------------------------------------------------------------
(* The parent of a Fork, checked under SpecParent *)

----------------------------------------------------------------------------
(* utils/time.rs: helpers on i64 timestamps *)

\* i64::MAX, scaled to 2^30 - 1 so that every difference of two timestamps
\* is a number TLC can hold; the saturation bounds scale with it.
I64_MAX == 1073741823
I64_MIN == -I64_MAX - 1

\* i64::saturating_sub.
saturating_sub(a, b) ==
  IF a - b > I64_MAX THEN I64_MAX
  ELSE IF a - b < I64_MIN THEN I64_MIN
  ELSE a - b

\* A Clock sysvar holding the timestamp t.
Clock(t) == [unix_timestamp |-> t]

now(clock) == clock.unix_timestamp

age_seconds(clock, created_at) ==
  LET current == now(clock) IN
  IF current <= created_at THEN 0
  ELSE saturating_sub(current, created_at)

is_within_window(clock, timestamp, window_secs) ==
  IF timestamp <= 0 \/ window_secs <= 0 THEN FALSE
  ELSE age_seconds(clock, timestamp) <= window_secs

\* Variant: a timestamp exactly window_secs old counts as older.
is_older_than_inclusive(clock, timestamp, window_secs) ==
  IF timestamp <= 0 \/ window_secs <= 0 THEN FALSE
  ELSE age_seconds(clock, timestamp) >= window_secs

is_older_than(clock, timestamp, window_secs) ==
  IF timestamp <= 0 \/ window_secs <= 0 THEN FALSE
  ELSE age_seconds(clock, timestamp) > window_secs

\* Variant: a negative timestamp is returned as it is.
clamp_to_past_no_floor(clock, ts) ==
  LET current == now(clock) IN
  IF ts > current THEN current ELSE ts

clamp_to_past(clock, ts) ==
  LET current == now(clock) IN
  IF ts <= 0 THEN 0
  ELSE IF ts > current THEN current
  ELSE ts

\* The i64 values the helpers are applied to: both ends of the range and
\* the values around zero.
I64Vals == {I64_MIN, -2, -1, 0, 1, 2, 3, I64_MAX - 1, I64_MAX}

\* The inputs of one application, before any helper is applied.
TimeInputs(c, t, w) ==
  [op |-> "time_inputs", clock |-> Clock(c), timestamp |-> t,
   window_secs |-> w]

\* The inputs with the result of the helper named op.
TimeResult(op, result) ==
  [op |-> op, clock |-> outcome.clock, timestamp |-> outcome.timestamp,
   window_secs |-> outcome.window_secs, result |-> result]

InitTime ==
  /\ config = ZeroConfig
  /\ lifecycle = InitLifecycle
  /\ metrics = InitMetrics
  /\ repo = InitRepo
  /\ forks = [k \in ForkKeys |-> NoFork]
  /\ notes = <<>>
  /\ \E c \in I64Vals, t \in I64Vals, w \in I64Vals :
       outcome = TimeInputs(c, t, w)

CallAgeSeconds ==
  /\ outcome.op = "time_inputs"
  /\ outcome' = TimeResult("age_seconds",
                           age_seconds(outcome.clock, outcome.timestamp))
  /\ UNCHANGED <<config, lifecycle, metrics, repo, forks, notes>>

CallIsWithinWindow ==
  /\ outcome.op = "time_inputs"
  /\ outcome' = TimeResult("is_within_window",
                           is_within_window(outcome.clock, outcome.timestamp,
                                            outcome.window_secs))
  /\ UNCHANGED <<config, lifecycle, metrics, repo, forks, notes>>

CallIsOlderThan ==
  /\ outcome.op = "time_inputs"
  /\ outcome' = TimeResult("is_older_than",
                           is_older_than(outcome.clock, outcome.timestamp,
                                         outcome.window_secs))
  /\ UNCHANGED <<config, lifecycle, metrics, repo, forks, notes>>

CallClampToPast ==
  /\ outcome.op = "time_inputs"
  /\ outcome' = TimeResult("clamp_to_past",
                           clamp_to_past(outcome.clock, outcome.timestamp))
  /\ UNCHANGED <<config, lifecycle, metrics, repo, forks, notes>>

NextTime ==
  \/ CallAgeSeconds
  \/ CallIsWithinWindow
  \/ CallIsOlderThan
  \/ CallClampToPast

SpecTime == InitTime /\ [][NextTime]_vars

----------------------------------------------------------------------------
(* Properties of the time helpers, checked under SpecTime *)

\* The two window predicates on the inputs of the application in outcome.
Within ==
  is_within_window(outcome.clock, outcome.timestamp, outcome.window_secs)
Older ==
  is_older_than(outcome.clock, outcome.timestamp, outcome.window_secs)

Ts == outcome.timestamp
Current == outcome.clock.unix_timestamp

----------------------------------------------------------------------------
(* The frame of Config::apply_update, checked under SpecConfig *)

\* C27: Config::apply_update, successful or not, never changes admin,
\* created_at, schema_version or bump, so that after init(admin = A) and any
\* sequence of apply_update calls Config.admin is still A and assert_admin
\* accepts the same signers as before.
C27_ApplyUpdateFrame ==
  outcome.op = "apply_update" =>
    /\ config.admin = outcome.pre.config.admin
    /\ config.created_at = outcome.pre.config.created_at
    /\ config.schema_version = outcome.pre.config.schema_version
    /\ config.bump = outcome.pre.config.bump
    /\ \A signer \in Keys \cup {DefaultKey} :
         assert_admin(config, signer) = assert_admin(outcome.pre.config, signer)

\* An apply_update that supplied all four fields and changed each of them
\* at a later clock time than the creation.
C27_Witness ==
  /\ outcome.op = "apply_update"
  /\ outcome.err = Ok
  /\ config.fee_bps # outcome.pre.config.fee_bps
  /\ config.max_modules_per_repo # outcome.pre.config.max_modules_per_repo
  /\ config.is_active # outcome.pre.config.is_active
  /\ config.policy_ref # outcome.pre.config.policy_ref
  /\ config.updated_at # config.created_at
  /\ config.admin \in Keys

----------------------------------------------------------------------------
(* Several repositories under one Metrics account *)

\* The Repo accounts of the deployment; in SpecRepos the variable repo maps
\* each key to its account.
RepoKeys == {"R1", "R2"}

\* Observations of two sizes, valid in every field.
ObservationArgsTwoSizes ==
  [lines_of_code : {1, 5}, files_processed : {2}, modules_touched : {0},
   revision : {7}, note : {0}]

\* A reconciliation carrying the sentinel: record_metrics rejects it
\* whoever signs.
MetricsArgsRejected ==
  { MetricsArgs([i \in 1..Len(MetricsFields) |->
                   IF MetricsFields[i] = "total_observations"
                     THEN Some(U64_MAX) ELSE Some(MetricVal)]) }

InitRepos ==
  /\ config = DeployedConfig
  /\ lifecycle = InitLifecycle
  /\ metrics = [InitMetrics EXCEPT !.updated_at = 1]
  /\ repo = [k \in RepoKeys |-> InitRepo]
  /\ forks = [k \in ForkKeys |-> NoFork]
  /\ notes = <<>>
  /\ outcome = Idle

\* record_observation on the Repo account of key k: the handler sees that
\* account as ctx.accounts.repo, and the ledger keeps its writes to it and to
\* Metrics when it returns Ok.
ExecRecordObservationOn(ArgSet) ==
  /\ outcome = Idle
  /\ \E k \in RepoKeys, observer \in Keys, args \in ArgSet, at \in ClockVals :
       LET acc == [Accounts EXCEPT !.repo = repo[k]]
           r == RecordObservationHandle(acc, observer, args, at)
           kept == IF r.err = Ok THEN r.mem ELSE acc IN
       /\ metrics' = kept.metrics
       /\ repo' = [repo EXCEPT ![k] = kept.repo]
       /\ outcome' = [op |-> "record_observation", repo_key |-> k,
                      signer |-> observer, args |-> args, now |-> at,
                      err |-> r.err, at |-> r.at, mem |-> r.mem,
                      event |-> r.event, pre |-> Accounts]
  /\ UNCHANGED <<config, lifecycle, forks, notes>>

\* record_observation on two repositories, record_metrics calls that fail,
\* and the lifecycle switch.
NextRepos ==
  \/ ExecRecordObservationOn(ObservationArgsTwoSizes)
  \/ ExecRecordMetrics(MetricsArgsRejected)
  \/ SetLifecyclePhase
  \/ Return

SpecRepos == InitRepos /\ [][NextRepos]_vars

----------------------------------------------------------------------------
(* Global and per-repo aggregates, checked under SpecRepos *)

RECURSIVE SumOverRepos(_, _)
\* The sum of the counter named field over the Repo accounts of keys.
SumOverRepos(keys, field) ==
  IF keys = {} THEN 0
  ELSE LET k == CHOOSE x \in keys : TRUE IN
       repo[k][field] + SumOverRepos(keys \ {k}, field)

\* C28: starting from zeroed counters and while record_metrics has never
\* succeeded, after any sequence of record_observation calls over the repos
\* Metrics.total_observations is the sum of the repos' observation counts,
\* and total_lines_of_code and total_files_processed are the sums of the
\* per-repo counters.
C28_AggregatesAgree ==
  /\ metrics.total_observations = SumOverRepos(RepoKeys, "observation_count")
  /\ metrics.total_lines_of_code
       = SumOverRepos(RepoKeys, "total_lines_of_code")
  /\ metrics.total_files_processed
       = SumOverRepos(RepoKeys, "total_files_processed")

\* Both repositories hold observations, of different total sizes, and a
\* record_metrics call has been rejected since.
C28_Witness ==
  /\ IsMetricsCall
  /\ outcome.err # Ok
  /\ repo["R1"].observation_count = 2
  /\ repo["R2"].observation_count = 1
  /\ repo["R1"].total_lines_of_code = 6
  /\ repo["R2"].total_lines_of_code = 5
  /\ metrics.total_lines_of_code = 11
  /\ metrics.total_observations = 3

----------------------------------------------------------------------------
(* examples/simple-anchor-project: the simple_note program *)

MAX_TITLE_LEN == 64
MAX_BODY_LEN == 512

\* A String value: its content and its length in bytes.
Str(text, len) == [text |-> text, len |-> len]

\* No Note account exists at an address.
NoNote == [exists |-> FALSE]

\* The address of the note account of CreateNote: the PDA of the seeds
\* "note", the authority's key and the title.
NoteAddress(authority, title) == <<authority, title>>

\* The init constraint of CreateNote: the runtime creates the account, which
\* fails when the address is already in use.
NoteAccountInit(store, address) ==
  IF store[address] # NoNote THEN "AccountAlreadyInUse" ELSE Ok

create_note(authority, title, body, bump) ==
  IF title.len > MAX_TITLE_LEN
    THEN [err |-> "TitleTooLong", note |-> NoNote, event |-> None]
  ELSE IF body.len > MAX_BODY_LEN
    THEN [err |-> "BodyTooLong", note |-> NoNote, event |-> None]
  ELSE [err |-> Ok,
        note |-> [exists |-> TRUE, owner |-> authority, title |-> title,
                  body |-> body, bump |-> bump],
        event |-> Some([name |-> "NoteCreated", owner |-> authority,
                        title |-> title])]

\* Variant: the owner check is left out.
update_note_unchecked(note, authority, new_title, new_body) ==
  IF IsSome(new_title) /\ Unwrap(new_title).len > MAX_TITLE_LEN
    THEN [err |-> "TitleTooLong", note |-> note, event |-> None]
  ELSE
    LET titled == IF IsSome(new_title)
                    THEN [note EXCEPT !.title = Unwrap(new_title)]
                    ELSE note IN
    IF IsSome(new_body) /\ Unwrap(new_body).len > MAX_BODY_LEN
      THEN [err |-> "BodyTooLong", note |-> titled, event |-> None]
    ELSE
      LET bodied == IF IsSome(new_body)
                      THEN [titled EXCEPT !.body = Unwrap(new_body)]
                      ELSE titled IN
      [err |-> Ok, note |-> bodied,
       event |-> Some([name |-> "NoteUpdated", owner |-> bodied.owner,
                       title |-> bodied.title])]

\* update_note, statement by statement on the account: the title is written
\* before the body is validated.
update_note(note, authority, new_title, new_body) ==
  IF note.owner # authority
    THEN [err |-> "Unauthorized", note |-> note, event |-> None]
  ELSE IF IsSome(new_title) /\ Unwrap(new_title).len > MAX_TITLE_LEN
    THEN [err |-> "TitleTooLong", note |-> note, event |-> None]
  ELSE
    LET titled == IF IsSome(new_title)
                    THEN [note EXCEPT !.title = Unwrap(new_title)]
                    ELSE note IN
    IF IsSome(new_body) /\ Unwrap(new_body).len > MAX_BODY_LEN
      THEN [err |-> "BodyTooLong", note |-> titled, event |-> None]
    ELSE
      LET bodied == IF IsSome(new_body)
                      THEN [titled EXCEPT !.body = Unwrap(new_body)]
                      ELSE titled IN
      [err |-> Ok, note |-> bodied,
       event |-> Some([name |-> "NoteUpdated", owner |-> bodied.owner,
                       title |-> bodied.title])]

\* close_note: the handler checks the owner; the close constraint of
\* CloseNote then removes the account.
close_note(note, authority) ==
  IF note.owner # authority
    THEN [err |-> "Unauthorized", note |-> note, event |-> None]
  ELSE [err |-> Ok, note |-> NoNote,
        event |-> Some([name |-> "NoteClosed", owner |-> note.owner,
                        title |-> note.title])]

\* Titles and bodies: short ones, one of exactly the maximal length and one
\* a byte longer.
ShortTitles == {Str("t1", 2), Str("t2", 2)}
LongTitle == Str("longest", MAX_TITLE_LEN)
TitleOverMax == Str("too long", MAX_TITLE_LEN + 1)
Bodies == {Str("", 0), Str("full", MAX_BODY_LEN)}
BodyOverMax == Str("too long", MAX_BODY_LEN + 1)

\* The addresses at which create_note is called.
NoteAddresses ==
  { NoteAddress(k, t) : k \in Keys, t \in ShortTitles \cup {TitleOverMax} }

InitNote ==
  /\ config = ZeroConfig
  /\ lifecycle = InitLifecycle
  /\ metrics = InitMetrics
  /\ repo = <<>>
  /\ forks = <<>>
  /\ notes = [a \in NoteAddresses |-> NoNote]
  /\ outcome = Idle

\* The create_note instruction: the account is created at the address of the
\* seeds, the handler runs, and the ledger keeps the account when it returns
\* Ok.
CallCreateNote ==
  /\ outcome = Idle
  /\ \E authority \in Keys, title \in ShortTitles \cup {TitleOverMax},
        body \in Bodies \cup {BodyOverMax} :
       LET address == NoteAddress(authority, title)
           r == IF NoteAccountInit(notes, address) # Ok
                  THEN [err |-> NoteAccountInit(notes, address),
                        note |-> notes[address], event |-> None]
                  ELSE create_note(authority, title, body, 255) IN
       /\ notes' = IF r.err = Ok THEN [notes EXCEPT ![address] = r.note]
                    ELSE notes
       /\ outcome' = [op |-> "create_note", signer |-> authority,
                      address |-> address, title |-> title, body |-> body,
                      err |-> r.err, event |-> r.event, pre |-> notes]
  /\ UNCHANGED <<config, lifecycle, metrics, repo, forks>>

\* The update_note instruction on an existing Note account.
CallUpdateNote ==
  /\ outcome = Idle
  /\ \E address \in NoteAddresses, authority \in Keys,
        new_title \in Opt(ShortTitles \cup {LongTitle, TitleOverMax}),
        new_body \in Opt(Bodies \cup {BodyOverMax}) :
       /\ notes[address] # NoNote
       /\ LET r == update_note(notes[address], authority, new_title,
                               new_body) IN
          /\ notes' = IF r.err = Ok THEN [notes EXCEPT ![address] = r.note]
                       ELSE notes
          /\ outcome' = [op |-> "update_note", signer |-> authority,
                         address |-> address, new_title |-> new_title,
                         new_body |-> new_body, err |-> r.err,
                         event |-> r.event, pre |-> notes]
  /\ UNCHANGED <<config, lifecycle, metrics, repo, forks>>

\* The close_note instruction on an existing Note account.
CallCloseNote ==
  /\ outcome = Idle
  /\ \E address \in NoteAddresses, authority \in Keys :
       /\ notes[address] # NoNote
       /\ LET r == close_note(notes[address], authority) IN
          /\ notes' = IF r.err = Ok THEN [notes EXCEPT ![address] = r.note]
                       ELSE notes
          /\ outcome' = [op |-> "close_note", signer |-> authority,
                         address |-> address, err |-> r.err,
                         event |-> r.event, pre |-> notes]
  /\ UNCHANGED <<config, lifecycle, metrics, repo, forks>>

NextNote ==
  \/ CallCreateNote
  \/ CallUpdateNote
  \/ CallCloseNote
  \/ Return

SpecNote == InitNote /\ [][NextNote]_vars

----------------------------------------------------------------------------
(* Properties of simple_note, checked under SpecNote *)

LiveNotes == { a \in NoteAddresses : notes[a] # NoNote }

\* The Note account of the call in outcome, before and after it.
NoteBefore == outcome.pre[outcome.address]
NoteAfter == notes[outcome.address]

\* update_note or close_note was called by a signer who does not own the
\* note.
NonOwnerNoteCall ==
  /\ outcome.op \in {"update_note", "close_note"}
  /\ outcome.signer # NoteBefore.owner

\* C29: only a note's owner can change or close it and the owner never
\* changes: update_note and close_note by an authority other than note.owner
\* fail with Unauthorized and leave the title and the body unchanged; every
\* live note has the owner that created it, a title of at most 64 bytes
\* and a body of at most 512 bytes.
C29_OnlyOwnerWrites ==
  /\ NonOwnerNoteCall =>
       /\ outcome.err = "Unauthorized"
       /\ NoteAfter # NoNote
       /\ NoteAfter.title = NoteBefore.title
       /\ NoteAfter.body = NoteBefore.body
       /\ notes = outcome.pre
  /\ outcome.op \in {"update_note", "close_note"} =>
       (NoteAfter # NoNote => NoteAfter.owner = NoteBefore.owner)
  /\ (outcome.op = "create_note" /\ outcome.err = Ok) =>
       NoteAfter.owner = outcome.signer
  /\ \A a \in LiveNotes :
       /\ notes[a].owner = a[1]
       /\ notes[a].title.len <= MAX_TITLE_LEN
       /\ notes[a].body.len <= MAX_BODY_LEN

\* A signer who is not the owner tried to update a note whose title and
\* body the owner had brought to their maximal lengths.
C29_Witness ==
  /\ outcome.op = "update_note"
  /\ outcome.signer # NoteBefore.owner
  /\ outcome.new_title # None
  /\ outcome.new_body # None
  /\ outcome.err = "Unauthorized"
  /\ NoteAfter.title.len = MAX_TITLE_LEN
  /\ NoteAfter.body.len = MAX_BODY_LEN

\* C30 as stated: notes are unique per (owner, title): no two live notes
\* with the same owner have the same title, and every live note is stored
\* at the address derived from its owner and its current title.
C30_UniquePerOwnerAndTitle ==
  /\ \A a \in LiveNotes, b \in LiveNotes :
       (a # b /\ notes[a].owner = notes[b].owner)
         => notes[a].title # notes[b].title
  /\ \A a \in LiveNotes : a = NoteAddress(notes[a].owner, notes[a].title)

====
